---- MODULE Spec2Model ----
(***************************************************************************)
(* A model of the numeric helpers of hhpy.ds (quantile_split,              *)
(* outlier_to_nan, k_split and the frame-taking helpers' copy discipline). *)
(* Every helper is a call: its inputs are drawn in Init, one action runs   *)
(* the whole function body and stores what it returns.                     *)
(***************************************************************************)
EXTENDS Integers, Sequences, FiniteSets, TLC

VARIABLES
    qs_pc,      \* quantile_split: "call" before the call, "done" after it
    qs_s,       \* quantile_split: the Series s passed in
    qs_n,       \* quantile_split: the argument n
    qs_out,     \* quantile_split: the Series returned
    ot_pc,      \* outlier_to_nan: "call" before the call, "done" after it
    ot_df,      \* outlier_to_nan: the DataFrame df passed in
    ot_args,    \* outlier_to_nan: groupby, std_cutoff, reps (and the merge order of the pandas build)
    ot_out,     \* outlier_to_nan: the DataFrame returned
    ks_pc,      \* k_split: "call" before the call, "done" after it
    ks_df,      \* k_split: the DataFrame df passed in
    ks_args,    \* k_split: k, groupby, sortby, return_type
    ks_out,     \* k_split: what is returned (and the frame _df_out it is cut from)
    cp_pc,      \* a helper called on the caller's frame: "call", then "returned" or "raised"
    cp_df,      \* the caller's frame as it was before the call
    cp_call,    \* the helper called and its arguments
    cp_heap,    \* the frame objects, the caller's first
    kt_pc,      \* k_split twice: "call", "first" after the first call, "second" after the second
    kt_df,      \* k_split twice: the DataFrame passed to both calls
    kt_args,    \* k_split twice: k, groupby, sortby of both calls
    kt_sorted,  \* k_split twice: the order sort_values leaves the rows in
    kt_first,   \* k_split twice: what the first call returns
    kt_second,  \* k_split twice: what the second call returns
    qf_pc,      \* qf: "call" before the call, "done" after it
    qf_df,      \* qf: the DataFrame df passed in
    qf_args,    \* qf: fltr and reset_index
    qf_out,     \* qf: the DataFrame returned
    mh_pc,      \* mahalanobis: "call" before the call, "done" after it
    mh_point,   \* mahalanobis: the point(s) passed in
    mh_df,      \* mahalanobis: the reference DataFrame df passed in
    mh_out,     \* mahalanobis: what is returned
    sc_pc,      \* rmsd, f_score: "call" before the call, "done" after it
    sc_call,    \* rmsd, f_score: the function called and its arguments
    sc_df,      \* rmsd, f_score: the DataFrame df passed in
    sc_out,     \* rmsd, f_score: what is returned, or the exception raised
    ds_pc,      \* df_score: "call" before the call, "done" after it
    ds_call,    \* df_score: pred_suffix, scores, scale, groupby
    ds_df,      \* df_score: the DataFrame df passed in
    ds_out,     \* df_score: the table returned, or the exception raised
    dz_pc,      \* drop_zero_cols: "call" before the call, "done" after it
    dz_df,      \* drop_zero_cols: the DataFrame df passed in
    dz_out,     \* drop_zero_cols: the DataFrame returned
    cs_pc,      \* change_span: "call" before the call, "done" after it
    cs_s,       \* change_span: the values of the Series s passed in
    cs_steps,   \* change_span: steps
    cs_out,     \* change_span: the values of the Series returned
    ep_pc,      \* installer: the step main is at, "returned" or "raised" at the end
    ep_argv,    \* installer: sys.argv
    ep_answer,  \* installer: what the user typed at the prompt
    ep_r,       \* installer: the content of the response to the GET
    ep_dir0,    \* installer: the files of the working directory before the run
    ep_dir,     \* installer: the files of the working directory
    ep_log,     \* installer: the request and file operations made so far
    md_pc,      \* Models: "new" before the constructor runs, then "constructed" or "raised", "used" later
    md_heap0,   \* Models: the objects of the caller before the call
    md_heap,    \* Models: the objects
    md_args,    \* Models: the objects passed as *args
    md_df,      \* Models: the object passed as df
    md_self,    \* Models: the collection built
    fm_pc,      \* force_model: "call" before the call, "done" after it
    fm_model,   \* force_model: the object passed in
    fm_out,     \* force_model: what is returned, or the exception raised
    tr_pc,      \* position in Models.train
    tr_args,    \* the arguments of the call of train
    tr_heap,    \* the frames, by object
    tr_self,    \* the Models collection
    tr_exc,     \* the exception train raised, None if none
    gi_pc,      \* position in grouped_interpolate
    gi_df,      \* the frame passed to grouped_interpolate
    gi_method,  \* the interpolation method
    gi_out      \* the column grouped_interpolate returned

qs_vars == <<qs_pc, qs_s, qs_n, qs_out>>

ot_vars == <<ot_pc, ot_df, ot_args, ot_out>>

ks_vars == <<ks_pc, ks_df, ks_args, ks_out>>

cp_vars == <<cp_pc, cp_df, cp_call, cp_heap>>

kt_vars == <<kt_pc, kt_df, kt_args, kt_sorted, kt_first, kt_second>>

qf_vars == <<qf_pc, qf_df, qf_args, qf_out>>

mh_vars == <<mh_pc, mh_point, mh_df, mh_out>>

sc_vars == <<sc_pc, sc_call, sc_df, sc_out>>

ds_vars == <<ds_pc, ds_call, ds_df, ds_out>>

dz_vars == <<dz_pc, dz_df, dz_out>>

cs_vars == <<cs_pc, cs_s, cs_steps, cs_out>>

ep_vars == <<ep_pc, ep_argv, ep_answer, ep_r, ep_dir0, ep_dir, ep_log>>

md_vars == <<md_pc, md_heap0, md_heap, md_args, md_df, md_self>>

fm_vars == <<fm_pc, fm_model, fm_out>>

tr_vars == <<tr_pc, tr_args, tr_heap, tr_self, tr_exc>>

gi_vars == <<gi_pc, gi_df, gi_method, gi_out>>

vars == <<qs_vars, ot_vars, ks_vars, cp_vars, kt_vars, qf_vars, mh_vars, sc_vars, ds_vars, dz_vars, cs_vars, ep_vars, md_vars, fm_vars, tr_vars, gi_vars>>

(***************************************************************************)
(* Generic helpers on sequences.                                           *)
(***************************************************************************)
NaN == -1

IsNaN(v) == v = NaN

Range(f) == {f[i] : i \in DOMAIN f}

Min2(a, b) == IF a <= b THEN a ELSE b

RECURSIVE SelectFinite(_)
SelectFinite(xs) ==
    IF xs = <<>> THEN <<>>
    ELSE IF IsNaN(Head(xs)) THEN SelectFinite(Tail(xs))
         ELSE <<Head(xs)>> \o SelectFinite(Tail(xs))

RECURSIVE InsertSorted(_, _)
InsertSorted(x, xs) ==
    IF xs = <<>> THEN <<x>>
    ELSE IF x <= Head(xs) THEN <<x>> \o xs
         ELSE <<Head(xs)>> \o InsertSorted(x, Tail(xs))

RECURSIVE SortAsc(_)
SortAsc(xs) == IF xs = <<>> THEN <<>> ELSE InsertSorted(Head(xs), SortAsc(Tail(xs)))

(***************************************************************************)
(* binary64 arithmetic.  quantile_split casts the column to float          *)
(* (astype(float)), so np.arange, `_q + .1`, np.round and np.quantile all   *)
(* compute in IEEE-754 binary64 with round-to-nearest-even.  A             *)
(* non-negative double is held exactly as a natural number X of units      *)
(* 2^-FracBits, written little-endian in limbs of LimbBits bits; every     *)
(* float operation computes the exact result and rounds it to MantBits     *)
(* significant bits.  The scale is fine enough for every value met with    *)
(* 1 <= n < 32 and data below 2^7.                                         *)
(***************************************************************************)
MantBits == 53

LimbBits == 15

Base == 2^LimbBits

FracLimbs == 4

NumLimbs == FracLimbs + 2

FracBits == FracLimbs * LimbBits

Zeros(k) == [i \in 1..k |-> 0]

FromInt(k) == Zeros(FracLimbs) \o <<k % Base, k \div Base>>

RECURSIVE AddC(_, _, _, _)
AddC(X, Y, i, c) ==
    IF i > Len(X) THEN <<>>
    ELSE LET t == X[i] + Y[i] + c
         IN  <<t % Base>> \o AddC(X, Y, i + 1, t \div Base)

NatAdd(X, Y) == AddC(X, Y, 1, 0)

RECURSIVE SubB(_, _, _, _)
SubB(X, Y, i, b) ==
    IF i > Len(X) THEN <<>>
    ELSE LET t == X[i] - Y[i] - b
         IN  IF t < 0 THEN <<t + Base>> \o SubB(X, Y, i + 1, 1)
             ELSE <<t>> \o SubB(X, Y, i + 1, 0)

NatSub(X, Y) == SubB(X, Y, 1, 0)

RECURSIVE MulC(_, _, _, _)
MulC(X, k, i, c) ==
    IF i > Len(X) THEN <<>>
    ELSE LET t == X[i] * k + c
         IN  <<t % Base>> \o MulC(X, k, i + 1, t \div Base)

NatMulSmall(X, k) == MulC(X, k, 1, 0)

RECURSIVE CmpFrom(_, _, _)
CmpFrom(X, Y, i) ==
    IF i = 0 THEN 0
    ELSE IF X[i] > Y[i] THEN 1
    ELSE IF X[i] < Y[i] THEN -1
    ELSE CmpFrom(X, Y, i - 1)

NatCmp(X, Y) == CmpFrom(X, Y, Len(X))

\* Long division of X by the small number n: quotient limbs and remainder.
RECURSIVE DivR(_, _, _, _)
DivR(X, n, i, r) ==
    IF i = 0 THEN [q |-> <<>>, r |-> r]
    ELSE LET cur  == r * Base + X[i]
             rest == DivR(X, n, i - 1, cur % n)
         IN  [q |-> rest.q \o <<cur \div n>>, r |-> rest.r]

NatDivSmall(X, n) == DivR(X, n, Len(X), 0)

RECURSIVE BitLen(_)
BitLen(l) == IF l = 0 THEN 0 ELSE 1 + BitLen(l \div 2)

RECURSIVE TopLimb(_, _)
TopLimb(X, i) == IF i = 0 THEN 0 ELSE IF X[i] # 0 THEN i ELSE TopLimb(X, i - 1)

NatBits(X) ==
    LET h == TopLimb(X, Len(X))
    IN  IF h = 0 THEN 0 ELSE (h - 1) * LimbBits + BitLen(X[h])

PowerOfTwo(r) ==
    [i \in 1..NumLimbs |-> IF i = (r \div LimbBits) + 1 THEN 2^(r % LimbBits) ELSE 0]

\* Round the exact value X (sticky: a non-zero part below X's last unit was cut
\* off) to MantBits significant bits, ties to even.
RoundNearestEven(X, sticky) ==
    LET p == NatBits(X)
        r == p - MantBits
    IN  IF r <= 0 THEN X
        ELSE LET low  == X[1] + X[2] * Base
                 R    == low % (2^r)
                 half == 2^(r - 1)
                 odd  == (low \div (2^r)) % 2 = 1
                 up   == R > half \/ (R = half /\ (sticky \/ odd))
                 cut  == NatSub(X, <<R % Base, R \div Base>> \o Zeros(NumLimbs - 2))
             IN  IF up THEN NatAdd(cut, PowerOfTwo(r)) ELSE cut

FAdd(X, Y) == RoundNearestEven(NatAdd(X, Y), FALSE)

FSub(X, Y) == RoundNearestEven(NatSub(X, Y), FALSE)

\* X * k for a double k that holds a small non-negative integer.
FMulInt(X, k) == RoundNearestEven(NatMulSmall(X, k), FALSE)

\* 1. / n
FRecip(n) ==
    LET d == NatDivSmall(FromInt(1), n)
    IN  RoundNearestEven(d.q, d.r # 0)

IntPart(X) == X[FracLimbs + 1] + X[FracLimbs + 2] * Base

FracPart(X) == [i \in 1..NumLimbs |-> IF i <= FracLimbs THEN X[i] ELSE 0]

One == FromInt(1)

Half == [i \in 1..NumLimbs |-> IF i = FracLimbs THEN Base \div 2 ELSE 0]

\* np.rint: the nearest integer, ties to even.
Rint(X) ==
    LET k == IntPart(X)
        c == NatCmp(FracPart(X), Half)
    IN  IF c > 0 \/ (c = 0 /\ k % 2 = 1) THEN k + 1 ELSE k

(***************************************************************************)
(* numpy pieces used by quantile_split.                                    *)
(***************************************************************************)
NatShiftLeft(X, s) ==
    LET Y == NatMulSmall(X, 2^(s % LimbBits))
        k == s \div LimbBits
    IN  [i \in 1..NumLimbs |-> IF i <= k THEN 0 ELSE Y[i - k]]

\* len(np.arange(0, 1, 1. / n)) = ceil((1 - 0) / step): the quotient 1 / step is
\* itself rounded, and exceeds n exactly when 1 / step > n + half an ulp of n.
ArangeLen(n) ==
    LET step == FRecip(n)
        T    == NatMulSmall(step, n)
    IN  IF NatCmp(T, One) >= 0 THEN n
        ELSE IF NatCmp(NatShiftLeft(NatSub(One, T), MantBits + 1 - BitLen(n)), step) > 0
             THEN n + 1
             ELSE n

\* np.arange(0, 1, 1. / n)[i] = 0 + i * step
ArangeAt(n, i) == FMulInt(FRecip(n), i)

\* the literal .1
Tenth == FRecip(10)

\* np.round(x, 1) == 1.  (np.round: rint(x * 10) / 10)
RoundsToOne(X) == Rint(FMulInt(X, 10)) = 10

\* np.quantile(xs, q), linear interpolation, on the sorted finite values xs:
\* virtual index (N - 1) * q, gamma its fraction, then numpy's _lerp.
Quantile(xs, q) ==
    LET N  == Len(xs)
        vi == FMulInt(q, N - 1)
        lo == IntPart(vi)
        g  == FracPart(vi)
        a  == xs[Min2(lo, N - 1) + 1]
        b  == xs[Min2(lo + 1, N - 1) + 1]
    IN  IF NatCmp(g, Half) >= 0
        THEN FSub(FromInt(b), FMulInt(FSub(One, g), b - a))
        ELSE FAdd(FromInt(a), FMulInt(g, b - a))

(***************************************************************************)
(* hhpy.main.round_signif: round to `signif` significant digits (ties to   *)
(* even, as np.round).                                                     *)
(***************************************************************************)
RECURSIVE Digits(_)
Digits(v) == IF v < 10 THEN 1 ELSE 1 + Digits(v \div 10)

RoundSignif(v, signif) ==
    IF IsNaN(v) \/ Digits(v) <= signif THEN v
    ELSE LET unit == 10^(Digits(v) - signif)
             k    == v \div unit
             r    == v % unit
         IN  IF 2 * r > unit \/ (2 * r = unit /\ k % 2 = 1)
             THEN (k + 1) * unit ELSE k * unit

DefaultSignif == 2

(***************************************************************************)
(* quantile_split(s, n, signif=2, na_to_med=False).  A Series is a record  *)
(* of its object identity, name, index labels, values and dtype; a bucket  *)
(* label 'q<i>: ...' is held as its number i, a row left without label as  *)
(* NaN.                                                                    *)
(***************************************************************************)
NUnique(xs) == Cardinality(Range(xs))

\* one pass of the bucket loop, for the _i-th element _q of np.arange
BucketPass(_s, sorted, _s_out, _i, _q) ==
    LET q_min    == Quantile(sorted, _q)
        qp       == FAdd(_q, Tenth)
        q_max    == IF NatCmp(qp, One) >= 0 THEN FromInt(sorted[Len(sorted)])
                    ELSE Quantile(sorted, qp)
        unbounded == RoundsToOne(qp)
    IN  [j \in DOMAIN _s |->
            IF /\ ~IsNaN(_s[j])
               /\ NatCmp(FromInt(_s[j]), q_min) >= 0
               /\ (unbounded \/ NatCmp(FromInt(_s[j]), q_max) < 0)
            THEN _i ELSE _s_out[j]]

RECURSIVE BucketLoop(_, _, _, _, _, _)
BucketLoop(_s, sorted, _s_out, n, _i, len) ==
    IF _i >= len THEN _s_out
    ELSE BucketLoop(_s, sorted, BucketPass(_s, sorted, _s_out, _i, ArangeAt(n, _i)),
                    n, _i + 1, len)

QuantileSplit(s, n, signif) ==
    IF NUnique(s.values) <= n THEN s
    ELSE LET _s     == [j \in DOMAIN s.values |-> RoundSignif(s.values[j], signif)]
             sorted == SortAsc(SelectFinite(_s))
             init   == [j \in DOMAIN s.values |-> NaN]
         IN  [obj    |-> "new",
              name   |-> s.name,
              index  |-> s.index,
              values |-> BucketLoop(_s, sorted, init, n, 0, ArangeLen(n)),
              dtype  |-> "category"]

(***************************************************************************)
(* The calls of quantile_split that are explored.                          *)
(***************************************************************************)
MaxN == 10

MaxLen == 12

MaxStep == 2

MaxDup == 2

\* L values start, start, .., start + step, ..: each value repeated dup times,
\* in ascending or descending row order, the first row missing or not.
SeriesValues(L, step, dup, desc, hole) ==
    [j \in 1..L |->
        IF hole /\ j = 1 THEN NaN
        ELSE LET k == IF desc THEN L - j ELSE j - 1
             IN  step * (k \div dup)]

SeriesInputs ==
    { [obj    |-> "s",
       name   |-> "x",
       index  |-> [j \in 1..L |-> base + j - 1],
       values |-> SeriesValues(L, step, dup, desc, hole),
       dtype  |-> "float64"] :
      L \in 1..MaxLen, step \in 0..MaxStep, dup \in 1..MaxDup,
      desc \in BOOLEAN, hole \in BOOLEAN, base \in {0, MaxLen} }

NoSeries == [obj |-> "none", name |-> "", index |-> <<>>, values |-> <<>>, dtype |-> ""]

QSIdle == qs_pc = "idle" /\ qs_s = NoSeries /\ qs_n = 0 /\ qs_out = NoSeries

QSCall ==
    /\ qs_pc = "call"
    /\ qs_out' = QuantileSplit(qs_s, qs_n, DefaultSignif)
    /\ qs_pc' = "done"
    /\ UNCHANGED <<qs_s, qs_n>>

(***************************************************************************)
(* Claims about quantile_split.                                            *)
(***************************************************************************)
FiniteValues(s) == {v \in Range(s.values) : ~IsNaN(v)}

\* n times the exact (real-number) q-quantile, q = num / n, of the sorted values xs
QuantileTimes(xs, num, n) ==
    LET N   == Len(xs)
        pos == num * (N - 1)
        f   == pos \div n
        rem == pos % n
    IN  IF f + 1 >= N THEN n * xs[N]
        ELSE n * xs[f + 1] + rem * (xs[f + 2] - xs[f + 1])

\* v lies in bucket i of n: quantile(i/n) <= v < quantile((i+1)/n), the last
\* bucket closed at the maximum
InBucket(xs, v, i, n) ==
    /\ QuantileTimes(xs, i, n) <= n * v
    /\ (i = n - 1 \/ n * v < QuantileTimes(xs, i + 1, n))

LabelledByQuantiles(s, out, n) ==
    LET xs == SortAsc(SelectFinite(s.values))
    IN  \A j \in DOMAIN s.values :
            ~IsNaN(s.values[j]) =>
                /\ out.values[j] \in 0..(n - 1)
                /\ \A i \in 0..(n - 1) :
                       (out.values[j] = i) <=> InBucket(xs, s.values[j], i, n)

\* C1: with n = 10 and more than 10 distinct finite values, every finite value
\* gets exactly one of the labels q0..q9, and it gets qi iff
\* quantile(i/10) <= v < quantile((i+1)/10) (the last bucket closed at the maximum).
C1_TenBucketsCoverRange ==
    (qs_pc = "done" /\ qs_n = 10 /\ Cardinality(FiniteValues(qs_s)) > 10)
        => LabelledByQuantiles(qs_s, qs_out, 10)

\* C2: for every n >= 1 and more than n distinct finite values, every finite
\* value gets the label of the one bucket [quantile(i/n), quantile((i+1)/n))
\* it lies in, so no finite value is left without a label.
C2_NBucketsForEveryN ==
    (qs_pc = "done" /\ Cardinality(FiniteValues(qs_s)) > qs_n)
        => LabelledByQuantiles(qs_s, qs_out, qs_n)

\* C3: for every s and n the result is a new Series of dtype category with the
\* index and the name of s and one entry per input row.
C3_NewCategorySeries ==
    qs_pc = "done" =>
        /\ qs_out.obj = "new"
        /\ qs_out.dtype = "category"
        /\ qs_out.index = qs_s.index
        /\ qs_out.name = qs_s.name
        /\ Len(qs_out.values) = Len(qs_s.values)

(***************************************************************************)
(* DataFrames.  A frame is a record of its index labels, its column names  *)
(* in order, and the values of each column by row position.  `rid` is not  *)
(* part of pandas: it names, for each row, the row of the input frame it   *)
(* was made from, so that a row can be followed through a merge or a sort. *)
(***************************************************************************)
NRows(f) == Len(f.index)

\* a column as a sequence of its own (the same values, held row by row)
AsSeq(xs) == xs \o <<>>

SeqOf(N, x) == [j \in 1..N |-> x]

\* _df[c] = values (a new column is appended, an old one overwritten)
SetCol(f, c, values) ==
    [f EXCEPT !.cols = IF \E i \in DOMAIN f.cols : f.cols[i] = c
                       THEN f.cols ELSE Append(f.cols, c),
              !.data = [d \in (DOMAIN f.data) \cup {c} |->
                           IF d = c THEN values ELSE f.data[d]]]

\* _df.drop(cs, axis=1)
DropCols(f, cs) ==
    [f EXCEPT !.cols = SelectSeq(f.cols, LAMBDA c : c \notin cs),
              !.data = [d \in (DOMAIN f.data) \ cs |-> f.data[d]]]

\* the rows at the positions pos, in that order
TakeRows(f, pos) ==
    [f EXCEPT !.index = [j \in DOMAIN pos |-> f.index[pos[j]]],
              !.rid   = [j \in DOMAIN pos |-> f.rid[pos[j]]],
              !.data  = [d \in DOMAIN f.data |-> [j \in DOMAIN pos |-> f.data[d][pos[j]]]]]

\* reset_index(drop=True), and the index of every pd.merge result
ResetIndex(f) == [f EXCEPT !.index = [j \in 1..NRows(f) |-> j - 1]]

\* the positions of xs at which P holds, ascending
Positions(xs, P(_)) == SelectSeq([j \in DOMAIN xs |-> j], LAMBDA j : P(xs[j]))

RECURSIVE Distinct(_)
\* the distinct elements of xs in the order of their first appearance
Distinct(xs) ==
    IF xs = <<>> THEN <<>>
    ELSE LET d == Distinct(SubSeq(xs, 1, Len(xs) - 1))
             x == xs[Len(xs)]
         IN  IF x \in Range(d) THEN d ELSE Append(d, x)

RECURSIVE Concat(_)
Concat(ss) == IF ss = <<>> THEN <<>> ELSE Head(ss) \o Concat(Tail(ss))

\* the row positions of each group, groups in order of the first appearance
\* of their key
GroupPositions(keys) ==
    LET ks == Distinct(keys)
    IN  [g \in DOMAIN ks |-> Positions(keys, LAMBDA k : k = ks[g])]

(***************************************************************************)
(* Exact fractions <<numerator, denominator>> for the helper columns of     *)
(* outlier_to_nan; the denominator 0 stands for NaN.  The float results    *)
(* are taken as exact: the model decides `<=` on the exact values.         *)
(***************************************************************************)
RNaN == <<0, 0>>

RIsNaN(a) == a[2] = 0

RFromValue(v) == IF IsNaN(v) THEN RNaN ELSE <<v, 1>>

RECURSIVE Gcd(_, _)
Gcd(a, b) == IF b = 0 THEN a ELSE Gcd(b, a % b)

Abs(n) == IF n < 0 THEN 0 - n ELSE n

RNorm(n, d) ==
    LET g == Gcd(Abs(n), d)
    IN  IF n = 0 THEN <<0, 1>> ELSE <<n \div g, d \div g>>

RAdd(a, b) ==
    IF RIsNaN(a) \/ RIsNaN(b) THEN RNaN ELSE RNorm(a[1] * b[2] + b[1] * a[2], a[2] * b[2])

RSub(a, b) ==
    IF RIsNaN(a) \/ RIsNaN(b) THEN RNaN ELSE RNorm(a[1] * b[2] - b[1] * a[2], a[2] * b[2])

RMul(a, b) ==
    IF RIsNaN(a) \/ RIsNaN(b) THEN RNaN ELSE RNorm(a[1] * b[1], a[2] * b[2])

RDivInt(a, k) == IF RIsNaN(a) \/ k = 0 THEN RNaN ELSE RNorm(a[1], a[2] * k)

RAbs(a) == <<Abs(a[1]), a[2]>>

\* a <= b; False when either side is NaN
RLe(a, b) == ~RIsNaN(a) /\ ~RIsNaN(b) /\ a[1] * b[2] <= b[1] * a[2]

RECURSIVE RSum(_)
\* the sum of the entries that are not NaN
RSum(xs) ==
    IF xs = <<>> THEN <<0, 1>>
    ELSE IF RIsNaN(Head(xs)) THEN RSum(Tail(xs))
         ELSE RAdd(Head(xs), RSum(Tail(xs)))

RCount(xs) == Len(SelectSeq(xs, LAMBDA a : ~RIsNaN(a)))

\* Series.mean(), NaN skipped
RMean(xs) == RDivInt(RSum(xs), RCount(xs))

\* the square of Series.std() (ddof = 1), NaN skipped; NaN below two values
RSquare(a) == RMul(a, a)

\* the sum of the squared distances of the entries to m
RSquares(xs, m) == RSum([j \in DOMAIN xs |-> RSquare(RSub(xs[j], m))])

RVar(xs) ==
    IF RCount(xs) < 2 THEN RNaN
    ELSE RDivInt(RSquares(xs, RMean(xs)), RCount(xs) - 1)

(***************************************************************************)
(* outlier_to_nan(df, col, groupby=None, std_cutoff=3, reps=1)             *)
(***************************************************************************)
\* Series.interpolate() on the values xs of one group: linear between valid
\* neighbours, the last valid value carried forward, leading NaN left.
Interpolate(xs) ==
    [j \in DOMAIN xs |->
        IF ~RIsNaN(xs[j]) THEN xs[j]
        ELSE LET before == {p \in 1..(j - 1) : ~RIsNaN(xs[p])}
                 after  == {q \in (j + 1)..Len(xs) : ~RIsNaN(xs[q])}
             IN  IF before = {} THEN RNaN
                 ELSE LET p == CHOOSE p \in before : \A o \in before : o <= p
                      IN  IF after = {} THEN xs[p]
                          ELSE LET q == CHOOSE q \in after : \A o \in after : q <= o
                               IN  RAdd(xs[p],
                                        RDivInt(RMul(RSub(xs[q], xs[p]), <<j - p, 1>>), q - p))]

\* groupby(keys)[..].transform(F): F on the values of each group, written back
\* to the rows of the group
\* the entry of row j in the results res of the groups at the positions gp
GroupEntry(res, gp, j) ==
    LET g == CHOOSE g \in DOMAIN gp : j \in Range(gp[g])
    IN  res[g][CHOOSE r \in DOMAIN gp[g] : gp[g][r] = j]

\* F on the values of each group
GroupApply(xs, gp, F(_)) ==
    AsSeq([g \in DOMAIN gp |-> AsSeq(F(AsSeq([i \in DOMAIN gp[g] |-> xs[gp[g][i]]])))])

GroupScatter(xs, gp, res) == AsSeq([j \in DOMAIN xs |-> GroupEntry(res, gp, j)])

GroupTransformAt(xs, gp, F(_)) == GroupScatter(xs, gp, GroupApply(xs, gp, F))

GroupTransform(xs, keys, F(_)) == GroupTransformAt(xs, GroupPositions(keys), F)

\* Series.shift(k) of one group, k = 1 or -1
Shift(xs, k) ==
    [j \in DOMAIN xs |-> IF j - k \in DOMAIN xs THEN xs[j - k] ELSE RNaN]

\* Series.bfill() / Series.ffill() over the whole column
BFill(xs) ==
    [j \in DOMAIN xs |->
        LET after == {q \in j..Len(xs) : ~RIsNaN(xs[q])}
        IN  IF after = {} THEN RNaN
            ELSE xs[CHOOSE q \in after : \A o \in after : q <= o]]

FFill(xs) ==
    [j \in DOMAIN xs |->
        LET before == {p \in 1..j : ~RIsNaN(xs[p])}
        IN  IF before = {} THEN RNaN
            ELSE xs[CHOOSE p \in before : \A o \in before : o <= p]]

\* _dummy_delta: half the sum of the distances to the previous and the next value
HalfDistances(dummy, prev, next) ==
    AsSeq([j \in DOMAIN dummy |->
        RDivInt(RAdd(RAbs(RSub(dummy[j], prev[j])), RAbs(RSub(dummy[j], next[j]))), 2)])

DummyDelta(dummy, keys) ==
    HalfDistances(dummy,
                  AsSeq(BFill(GroupTransform(dummy, keys, LAMBDA g : Shift(g, 1)))),
                  AsSeq(FFill(GroupTransform(dummy, keys, LAMBDA g : Shift(g, 0 - 1)))))

\* abs(delta - mean) <= std_cutoff * std, decided on the squares
WithinCutoff(delta, mean, var, std_cutoff) ==
    RLe(RSquare(RSub(delta, mean)), RMul(<<std_cutoff * std_cutoff, 1>>, var))

\* np.where(cond, _df[col], np.nan)
KeepOrNaN_Zero(cond, x) == IF cond THEN x ELSE 0

KeepOrNaN(cond, x) == IF cond THEN x ELSE NaN

\* The row order of pd.merge(_df, _df_cutoff, on=groupby, how='inner'): the
\* left order (pandas >= 2.2), or the rows of each key together, keys in order
\* of first appearance (earlier pandas).
MergeOrder(keys, grouped) ==
    IF grouped THEN Concat(GroupPositions(keys)) ELSE [j \in DOMAIN keys |-> j]

\* _df[col] = np.where(...) on the merged frame, then the helper columns dropped
OutlierWhere(merged, col, std_cutoff) ==
    DropCols(SetCol(merged, col,
                    [j \in DOMAIN merged.rid |->
                        KeepOrNaN(WithinCutoff(merged.data["_dummy_delta"][j],
                                               merged.data["_dummy_mean"][j],
                                               merged.data["_dummy_std"][j], std_cutoff),
                                  merged.data[col][j])]),
             {"_dummy", "_dummy_mean", "_dummy_std", "_dummy_delta"})

\* pd.merge(_df, _df_cutoff, on=groupby, how='inner'): the rows at pos under a
\* new index, with the mean and the std (held squared) of their group
OutlierMerge(with, pos, mean, var) ==
    SetCol(SetCol(ResetIndex(TakeRows(with, pos)),
                  "_dummy_mean", [j \in DOMAIN pos |-> mean[pos[j]]]),
           "_dummy_std", [j \in DOMAIN pos |-> var[pos[j]]])

\* _df_mean and _df_std of the groups, then the merge and np.where
OutlierCutoff(_df, col, keys, std_cutoff, grouped, dummy, delta) ==
    OutlierWhere(OutlierMerge(SetCol(SetCol(_df, "_dummy", dummy), "_dummy_delta", delta),
                              MergeOrder(keys, grouped),
                              GroupTransform(delta, keys, LAMBDA g : SeqOf(Len(g), RMean(g))),
                              GroupTransform(delta, keys, LAMBDA g : SeqOf(Len(g), RVar(g)))),
                 col, std_cutoff)

\* _dummy_delta of the interpolated column dummy
OutlierDelta(_df, col, keys, std_cutoff, grouped, dummy) ==
    OutlierCutoff(_df, col, keys, std_cutoff, grouped, dummy, DummyDelta(dummy, keys))

\* one repetition of the loop body
OutlierRep(_df, col, groupby, std_cutoff, grouped) ==
    OutlierDelta(_df, col, _df.data[groupby], std_cutoff, grouped,
                 GroupTransform([j \in DOMAIN _df.rid |-> RFromValue(_df.data[col][j])],
                                _df.data[groupby], Interpolate))

RECURSIVE OutlierReps(_, _, _, _, _, _)
OutlierReps(_df, col, groupby, std_cutoff, grouped, reps) ==
    IF reps = 0 THEN _df
    ELSE OutlierReps(OutlierRep(_df, col, groupby, std_cutoff, grouped),
                     col, groupby, std_cutoff, grouped, reps - 1)

None == "None"

OutlierToNan(df, col, groupby, std_cutoff, reps, grouped) ==
    LET _df == IF groupby = None
               THEN SetCol(df, "__groupby", SeqOf(NRows(df), 1)) ELSE df
        by  == IF groupby = None THEN "__groupby" ELSE groupby
        out == OutlierReps(_df, col, by, std_cutoff, grouped, reps)
    IN  IF \E i \in DOMAIN out.cols : out.cols[i] = "__groupby"
        THEN DropCols(out, {"__groupby"}) ELSE out

(***************************************************************************)
(* The calls of outlier_to_nan that are explored: frames with the columns  *)
(* g (a group key), x (the column filtered) and y (another column).        *)
(***************************************************************************)
MaxRows == 3

MaxVal == 2

MaxReps == 2

DefaultStdCutoff == 3

RECURSIVE SeqsOver(_, _)
\* all sequences of length N over S
SeqsOver(S, N) ==
    IF N = 0 THEN {<<>>}
    ELSE {Append(s, x) : s \in SeqsOver(S, N - 1), x \in S}

\* group keys: alternating (0, 1, 0, ..) or in blocks of two (0, 0, 1, 1, ..)
GroupKeys(N, alternate) ==
    [j \in 1..N |-> IF alternate THEN (j - 1) % 2 ELSE (j - 1) \div 2]

OutlierFrames ==
    { [index |-> [j \in 1..Len(xs) |-> base + j - 1],
       rid   |-> [j \in 1..Len(xs) |-> j],
       cols  |-> <<"g", "x", "y">>,
       data  |-> [c \in {"g", "x", "y"} |->
                    CASE c = "g" -> GroupKeys(Len(xs), alternate)
                      [] c = "x" -> xs
                      [] c = "y" -> [j \in 1..Len(xs) |-> MaxVal + j]]] :
      xs \in UNION {SeqsOver({NaN} \cup 0..MaxVal, N) : N \in 1..MaxRows},
      base \in {0, MaxRows}, alternate \in BOOLEAN }

NoFrame == [index |-> <<>>, rid |-> <<>>, cols |-> <<>>, data |-> <<>>]

NoArgs == [groupby |-> None]

OTIdle == ot_pc = "idle" /\ ot_df = NoFrame /\ ot_args = NoArgs /\ ot_out = NoFrame

OTCall ==
    /\ ot_pc = "call"
    /\ ot_out' = OutlierToNan(ot_df, "x", ot_args.groupby, ot_args.std_cutoff,
                              ot_args.reps, ot_args.grouped)
    /\ ot_pc' = "done"
    /\ UNCHANGED <<ot_df, ot_args>>

(***************************************************************************)
(* k_split(df, k=5, groupby=None, sortby=None, random_state=None,          *)
(*         return_type=1)                                                  *)
(***************************************************************************)
RECURSIVE PermsOf(_)
\* the orders of 1..N, as sequences
PermsOf(N) ==
    IF N = 0 THEN {<<>>}
    ELSE {SubSeq(p, 1, i - 1) \o <<N>> \o SubSeq(p, i, N - 1) :
            p \in PermsOf(N - 1), i \in 1..N}

\* pd.concat(frames, ignore_index=True): the rows of all frames, a new index
RECURSIVE ConcatRows(_)
ConcatRows(frames) ==
    IF Len(frames) = 1 THEN frames[1]
    ELSE LET a == frames[1]
             b == ConcatRows(Tail(frames))
         IN  [a EXCEPT !.index = a.index \o b.index,
                       !.rid   = a.rid \o b.rid,
                       !.data  = [c \in DOMAIN a.data |-> a.data[c] \o b.data[c]]]

df_merge(frames) == ResetIndex(ConcatRows(frames))

\* set_index([c]): the column c becomes the index
SetIndex(f, c) == DropCols([f EXCEPT !.index = f.data[c]], {c})

\* the positions of xs in ascending order of their values; equal values stay
\* in their order (the labels sorted here are distinct)
SortedPositions(xs) ==
    LET pos == [j \in DOMAIN xs |-> j]
        rank(j) == Cardinality({i \in DOMAIN xs : xs[i] < xs[j] \/ (xs[i] = xs[j] /\ i < j)})
    IN  [r \in DOMAIN xs |-> CHOOSE j \in DOMAIN xs : rank(j) = r - 1]

\* sort_index()
SortIndex(f) == TakeRows(f, SortedPositions(f.index))

\* the keys of the groups in ascending order (groupby sorts its keys and
\* leaves out the rows whose key is missing)
SortedKeys(keys) ==
    LET ks == Distinct(SelectSeq(keys, LAMBDA x : ~IsNaN(x)))
        sp == SortedPositions(ks)
    IN  [g \in DOMAIN ks |-> ks[sp[g]]]

\* int(np.ceil(N / k))
CeilDiv(N, k) == (N + k - 1) \div k

\* rows assigned their position in the group divided by _k_split
KIndex(position, _k_split) == position \div _k_split

\* One group _df_i of _df (its rows at the positions gpos, carrying the row
\* positions of _df as index), ordered and given its _k_index.  order is the
\* order df.sample(frac=1) or sort_values puts the rows of the frame in.
KSplitGroup(_df, gpos, sortby, order, _k_split) ==
    LET _df_i  == TakeRows(_df, gpos)
        byOrd  == SortedPositions([i \in DOMAIN gpos |->
                      CHOOSE r \in DOMAIN order : order[r] = gpos[i]])
        sorted == IF sortby = "index" THEN _df_i
                  ELSE ResetIndex(TakeRows(_df_i, byOrd))
    IN  SetCol(sorted, "_k_index",
               [i \in DOMAIN sorted.index |-> KIndex(sorted.index[i], _k_split)])

\* the orders sort_values(by=sortby) may leave the rows of each group in (the
\* order of equal keys is not fixed), or any order for a random sample
OrdersFor(_df, groupby, sortby) ==
    IF sortby = "index" THEN {[j \in 1..NRows(_df) |-> j]}
    ELSE {p \in PermsOf(NRows(_df)) :
            sortby = None \/
            \A a, b \in DOMAIN p :
                (a < b /\ (groupby = None \/ _df.data[groupby][p[a]] = _df.data[groupby][p[b]]))
                    => _df.data[sortby][p[a]] <= _df.data[sortby][p[b]]}

\* the frame _df_out: every row with its _k_index, under its original label
KSplitFrame(df, k, groupby, sortby, order) ==
    LET withIdx  == ResetIndex(SetCol(df, "_index", df.index))
        _k_split == CeilDiv(NRows(withIdx), k)
        _df      == IF groupby = None
                    THEN SetCol(withIdx, "_dummy", SeqOf(NRows(withIdx), 1)) ELSE withIdx
        by       == IF groupby = None THEN "_dummy" ELSE groupby
        keys     == SortedKeys(_df.data[by])
        groups   == [g \in DOMAIN keys |->
                        KSplitGroup(_df, Positions(_df.data[by], LAMBDA x : x = keys[g]),
                                    sortby, order, _k_split)]
        merged   == SortIndex(SetIndex(df_merge(groups), "_index"))
    IN  IF \E i \in DOMAIN merged.cols : merged.cols[i] = "_dummy"
        THEN DropCols(merged, {"_dummy"}) ELSE merged

\* the rows of f at which column c satisfies P
FilterRows(f, c, P(_)) == TakeRows(f, Positions(f.data[c], P))

\* _df_out[_df_out['_k_index'] != return_type].drop('_k_index', axis=1)
TrainRows(_df_out, return_type) ==
    DropCols(FilterRows(_df_out, "_k_index", LAMBDA x : x # return_type), {"_k_index"})

\* _df_out[_df_out['_k_index'] == return_type].drop('_k_index', axis=1)
TestRows(_df_out, return_type) ==
    DropCols(FilterRows(_df_out, "_k_index", LAMBDA x : x = return_type), {"_k_index"})

\* `return_type in range(k)`: an integer below k; 's' is not
KSplit(df, k, groupby, sortby, order, as_series, return_type) ==
    LET _df_out == KSplitFrame(df, k, groupby, sortby, order)
    IN  IF ~as_series /\ return_type \in 0..(k - 1)
        THEN [kind     |-> "tuple",
              _df_out  |-> _df_out,
              df_train |-> TrainRows(_df_out, return_type),
              df_test  |-> TestRows(_df_out, return_type)]
        ELSE [kind    |-> "series",
              _df_out |-> _df_out,
              index   |-> _df_out.index,
              rid     |-> _df_out.rid,
              values  |-> _df_out.data["_k_index"]]

(***************************************************************************)
(* The calls of k_split that are explored: non-empty frames with the       *)
(* columns g (a group key: alternating, the first row apart from the       *)
(* others, or missing in the second row) and v (a sort key), distinct      *)
(* index labels in ascending or descending order.                          *)
(***************************************************************************)
MaxRowsK == 4

MaxK == 3

KSplitFrames ==
    { [index |-> [j \in 1..N |-> IF desc THEN N - j ELSE j + N],
       rid   |-> [j \in 1..N |-> j],
       cols  |-> <<"g", "v">>,
       data  |-> [c \in {"g", "v"} |->
                    IF c = "g" THEN [j \in 1..N |->
                                        CASE keys = "alternate" -> (j - 1) % 2
                                          [] keys = "apart"     -> IF j = 1 THEN 1 ELSE 0
                                          [] keys = "missing"   -> IF j = 2 THEN NaN ELSE 0]
                    ELSE [j \in 1..N |-> IF ties THEN j % 2 ELSE N - j]]] :
      N \in 1..MaxRowsK, desc \in BOOLEAN, keys \in {"alternate", "apart", "missing"},
      ties \in BOOLEAN }

NoKArgs == [k |-> 0]

NoKOut == [kind |-> "none"]

KSIdle == ks_pc = "idle" /\ ks_df = NoFrame /\ ks_args = NoKArgs /\ ks_out = NoKOut

KSCall ==
    /\ ks_pc = "call"
    /\ \E order \in OrdersFor(ks_df, ks_args.groupby, ks_args.sortby) :
          ks_out' = KSplit(ks_df, ks_args.k, ks_args.groupby, ks_args.sortby, order,
                           ks_args.as_series, ks_args.return_type)
    /\ ks_pc' = "done"
    /\ UNCHANGED <<ks_df, ks_args>>

(***************************************************************************)
(* Claims about outlier_to_nan.                                            *)
(***************************************************************************)
\* C4: the returned frame has the same number of rows, the same index labels
\* in the same order and the same set of columns as the input frame.
C4_IndexAlignmentKept ==
    ot_pc = "done" =>
        /\ NRows(ot_out) = NRows(ot_df)
        /\ ot_out.index = ot_df.index
        /\ Range(ot_out.cols) = Range(ot_df.cols)

PartSize(f, i, by, key) ==
    Cardinality({j \in DOMAIN f.index :
                    f.data["_k_index"][j] = i /\ (by = None \/ f.data[by][j] = key)})

EquallySized(f, k, by, key) ==
    /\ \A i \in 0..(k - 1) : PartSize(f, i, by, key) >= 1
    /\ \A i1, i2 \in 0..(k - 1) :
           PartSize(f, i1, by, key) - PartSize(f, i2, by, key) <= 1

\* every row of the input frame df occurs exactly once among the rows rid,
\* and carries the index label it has in df
EachRowOnce(df, rid, index) ==
    /\ Len(rid) = NRows(df)
    /\ Range(rid) = 1..NRows(df)
    /\ \A j \in DOMAIN rid : index[j] = df.index[rid[j]]

\* C7: with return_type 's' the Series has exactly one entry per row of the
\* (non-empty) input frame, under that row's index label, and every entry is
\* an integer in 0..k-1.
C7_SeriesOfPartIndices ==
    (ks_pc = "done" /\ ks_args.as_series) =>
        /\ ks_out.kind = "series"
        /\ EachRowOnce(ks_df, ks_out.rid, ks_out.index)
        /\ Len(ks_out.values) = NRows(ks_df)
        /\ \A j \in DOMAIN ks_out.values : ks_out.values[j] \in 0..(ks_args.k - 1)

\* C8: without groupby and with N >= k rows, every part index 0..k-1 is
\* assigned to at least one row and the sizes of two parts differ by at most one.
C8_KEqualSizedParts ==
    (ks_pc = "done" /\ ks_args.groupby = None /\ NRows(ks_df) >= ks_args.k) =>
        EquallySized(ks_out._df_out, ks_args.k, None, 0)

\* C9: with groupby, every group of at least k rows has rows in every part
\* 0..k-1, and its numbers of rows in two parts differ by at most one.
C9_GroupsEquallyRepresented ==
    (ks_pc = "done" /\ ks_args.groupby = "g") =>
        \A key \in Range(ks_df.data["g"]) \ {NaN} :
            Cardinality({j \in DOMAIN ks_df.index : ks_df.data["g"][j] = key}) >= ks_args.k
                => EquallySized(ks_out._df_out, ks_args.k, "g", key)

\* C10: with an integer return_type r in range(k), df_test holds exactly the
\* rows with part index r and df_train all other rows: disjoint, together every
\* input row once under its index label and with its values, each with exactly
\* the columns of the input frame.
C10_TrainTestPartition ==
    (ks_pc = "done" /\ ~ks_args.as_series /\ ks_args.return_type < ks_args.k) =>
        /\ ks_out.kind = "tuple"
        /\ EachRowOnce(ks_df, ks_out.df_train.rid \o ks_out.df_test.rid,
                       ks_out.df_train.index \o ks_out.df_test.index)
        /\ Range(ks_out.df_test.rid) =
               {ks_out._df_out.rid[j] : j \in {i \in DOMAIN ks_out._df_out.rid :
                    ks_out._df_out.data["_k_index"][i] = ks_args.return_type}}
        /\ \A part \in {ks_out.df_train, ks_out.df_test} :
               /\ part.cols = ks_df.cols
               /\ DOMAIN part.data = DOMAIN ks_df.data
               /\ \A c \in DOMAIN part.data, j \in DOMAIN part.rid :
                      part.data[c][j] = ks_df.data[c][part.rid[j]]

(***************************************************************************)
(* The frame objects a helper holds references to.  An object has an       *)
(* index and columns; the mark "in" is content as the caller built it,     *)
(* the mark "out" content a helper wrote.  The heap is the sequence of     *)
(* the objects allocated so far (the caller's frame first), a reference is *)
(* a position in it, and env binds the local names of a running call.      *)
(***************************************************************************)
FrameObject(cols, mark) ==
    [index |-> mark, cols |-> cols, data |-> SeqOf(Len(cols), mark)]

HasColumn(o, c) == \E i \in DOMAIN o.cols : o.cols[i] = c

\* o[c] = ... writes column c of the object o itself
SetItem(o, c) ==
    IF HasColumn(o, c)
    THEN [o EXCEPT !.data = AsSeq([i \in DOMAIN o.cols |->
                                      IF o.cols[i] = c THEN "out" ELSE o.data[i]])]
    ELSE [o EXCEPT !.cols = Append(o.cols, c), !.data = Append(o.data, "out")]

\* o.drop(c, axis=1, inplace=True), and the columns dropped from a new frame
DropItem(o, c) ==
    LET keep == Positions(o.cols, LAMBDA x : x # c)
    IN  [o EXCEPT !.cols = AsSeq([i \in DOMAIN keep |-> o.cols[keep[i]]]),
                  !.data = AsSeq([i \in DOMAIN keep |-> o.data[keep[i]]])]

Bind(env, name, ref) ==
    [v \in DOMAIN env \cup {name} |-> IF v = name THEN ref ELSE env[v]]

Unbind(env, name) == [v \in DOMAIN env \ {name} |-> env[v]]

\* a new object o on the heap, bound to the name dst
Alloc(st, dst, o) ==
    [st EXCEPT !.heap = Append(st.heap, o),
               !.env  = Bind(st.env, dst, Len(st.heap) + 1)]

\* a second name for the object itself instead of a copy of it
Copy_SameObject(st, dst, src) ==
    [st EXCEPT !.env = Bind(st.env, dst, st.env[src])]

\* dst = src.copy(): a new object with the content of src
Copy(st, dst, src) == Alloc(st, dst, st.heap[st.env[src]])

RECURSIVE Exec(_, _, _)
\* One statement of a helper:
\*   <<"copy", dst, src>>     dst = src.copy()
\*   <<"del", name>>          del name
\*   <<"bind", dst, src>>     dst = src
\*   <<"new", dst, src>>      dst = an operation on src that returns a new frame
\*   <<"frame", dst, cols>>   dst = a frame built from scratch
\*   <<"get", name, c>>       name[c], a KeyError if c is not a column
\*   <<"set", name, c>>       name[c] = ...
\*   <<"drop", name, c>>      column c removed from the object name refers to
\*   <<"index", name>>        name.index = ... or name.columns = ...
\*   <<"call", prog, param, arg>>  a call of prog with param bound to arg
Exec1(st, s) ==
    CASE s[1] = "copy"  -> Copy(st, s[2], s[3])
      [] s[1] = "del"   -> [st EXCEPT !.env = Unbind(st.env, s[2])]
      [] s[1] = "bind"  -> [st EXCEPT !.env = Bind(st.env, s[2], st.env[s[3]])]
      [] s[1] = "new"   -> Alloc(st, s[2], st.heap[st.env[s[3]]])
      [] s[1] = "frame" -> Alloc(st, s[2], FrameObject(s[3], "out"))
      [] s[1] = "get"   -> IF HasColumn(st.heap[st.env[s[2]]], s[3]) THEN st
                           ELSE [st EXCEPT !.status = "raised"]
      [] s[1] = "set"   -> [st EXCEPT !.heap[st.env[s[2]]] = SetItem(@, s[3])]
      [] s[1] = "drop"  -> [st EXCEPT !.heap[st.env[s[2]]] = DropItem(@, s[3])]
      [] s[1] = "index" -> [st EXCEPT !.heap[st.env[s[2]]].index = "out"]
      [] s[1] = "call"  ->
            LET r == Exec(s[2], 1, [heap   |-> st.heap,
                                    env    |-> [v \in {s[3]} |-> st.env[s[4]]],
                                    status |-> "running"])
            IN  [st EXCEPT !.heap = r.heap,
                           !.status = IF r.status = "raised" THEN "raised" ELSE @]

\* the statements of prog from the i-th on, until one raises
Exec(prog, i, st) ==
    IF i > Len(prog) THEN [st EXCEPT !.status = "returned"]
    ELSE LET next == Exec1(st, prog[i])
         IN  IF next.status = "raised" THEN next ELSE Exec(prog, i + 1, next)

RECURSIVE Repeat(_, _)
\* the body of a loop, run n times
Repeat(body, n) == IF n = 0 THEN <<>> ELSE body \o Repeat(body, n - 1)

\* the statements under an `if`
When(cond, body) == IF cond THEN body ELSE <<>>

MaxCopyReps == 2

MaxGroups == 2

\* the groups df.groupby iterates over: one for the constant dummy column
NGroups(groupby) == IF groupby = None THEN 1 ELSE MaxGroups

(***************************************************************************)
(* The helpers as the statements they run on frames, in source order.      *)
(* Reference column x, true values y, predictions y_pred, group column g.  *)
(***************************************************************************)
qf_prog(remove_unused_categories, reset_index) ==
    << <<"copy", "_df", "df">>, <<"del", "df">>,
       <<"frame", "_filter_df", <<"g">>>>,
       <<"new", "_filter_df", "_filter_df">>,
       <<"get", "_df", "g">>,
       <<"new", "_df", "_df">> >>
    \o When(remove_unused_categories, << <<"get", "_df", "g">>, <<"set", "_df", "g">> >>)
    \o When(reset_index, << <<"new", "_df", "_df">> >>)

outlier_to_nan_prog(groupby, reps) ==
    LET by == IF groupby = None THEN "__groupby" ELSE groupby
    IN  << <<"copy", "_df", "df">>, <<"del", "df">> >>
        \o When(groupby = None, << <<"set", "_df", "__groupby">> >>)
        \o Repeat(<< <<"get", "_df", by>>,
                     <<"get", "_df", "x">>, <<"set", "_df", "_dummy">>,
                     <<"set", "_df", "_dummy">>,
                     <<"set", "_df", "_dummy_delta">>,
                     <<"frame", "_df_mean", <<"_dummy_mean">>>>,
                     <<"frame", "_df_std", <<"_dummy_std">>>>,
                     <<"frame", "_df_cutoff", <<by, "_dummy_mean", "_dummy_std">>>>,
                     <<"new", "_df", "_df">>,
                     <<"set", "_df", "_dummy_mean">>, <<"set", "_df", "_dummy_std">>,
                     <<"get", "_df", "x">>, <<"set", "_df", "x">>,
                     <<"new", "_df", "_df">>,
                     <<"drop", "_df", "_dummy">>, <<"drop", "_df", "_dummy_mean">>,
                     <<"drop", "_df", "_dummy_std">>, <<"drop", "_df", "_dummy_delta">> >>,
                  reps)
        \o When(groupby = None, << <<"new", "_df", "_df">>, <<"drop", "_df", "__groupby">> >>)

k_split_prog(groupby, as_series) ==
    LET by == IF groupby = None THEN "_dummy" ELSE groupby
    IN  << <<"copy", "_df", "df">>, <<"del", "df">>,
           <<"set", "_df", "_index">>,
           <<"new", "_df", "_df">> >>
        \o When(groupby = None, << <<"set", "_df", "_dummy">> >>)
        \o << <<"get", "_df", by>> >>
        \o Repeat(<< <<"new", "_df_i", "_df">>,
                     <<"new", "_df_i", "_df_i">>,
                     <<"set", "_df_i", "_k_index">> >>,
                  NGroups(groupby))
        \o << <<"new", "_df_out", "_df_i">>,
              <<"drop", "_df_out", "_index">>,
              <<"index", "_df_out">> >>
        \o When(groupby = None, << <<"new", "_df_out", "_df_out">>,
                                   <<"drop", "_df_out", "_dummy">> >>)
        \o (IF as_series THEN << <<"get", "_df_out", "_k_index">> >>
            ELSE << <<"new", "_df_train", "_df_out">>, <<"drop", "_df_train", "_k_index">>,
                    <<"new", "_df_test", "_df_out">>, <<"drop", "_df_test", "_k_index">> >>)

rmsd_prog(x, group, to_abs, standardize) ==
    << <<"copy", "_df", "df">> >>
    \o When(to_abs, << <<"get", "_df", x>>, <<"set", "_df", x>> >>)
    \o When(standardize, << <<"get", "_df", x>>, <<"set", "_df", x>> >>)
    \o << <<"get", "_df", group>>, <<"get", "_df", x>>,
          <<"frame", "_df", <<group, x>>>>,
          <<"index", "_df">>,
          <<"set", "_df", "dummy">>,
          <<"new", "_df_paired", "_df">>,
          <<"new", "_df_paired", "_df_paired">>,
          <<"set", "_df_paired", "weight">>,
          <<"set", "_df_paired", "difference">>,
          <<"set", "_df_paired", "weighted_squared_difference">> >>

df_rmsd_prog(hue, include_rmsd) ==
    << <<"copy", "_df", "df">>,
       <<"frame", "_df_rmsd", <<>>>> >>
    \o When(hue # None, << <<"get", "_df", hue>>, <<"set", "_df", hue>>,
                           <<"get", "_df", hue>>, <<"set", "_df", hue>> >>)
    \o << <<"get", "_df", "g">>, <<"set", "_df", "_group">> >>
    \o Repeat((IF hue = None THEN << <<"bind", "_df_hue", "_df">> >>
                              ELSE << <<"new", "_df_hue", "_df">> >>)
              \o When(include_rmsd,
                      << <<"call", rmsd_prog("x", "_group", FALSE, FALSE), "df", "_df_hue">> >>)
              \o << <<"get", "_df_hue", "_group">>,
                    <<"frame", "_df_rmsd_hue", <<"x", "group", "rmsd">>>> >>
              \o When(hue # None, << <<"set", "_df_rmsd_hue", hue>> >>)
              \o << <<"new", "_df_rmsd", "_df_rmsd_hue">> >>,
              NGroups(hue))
    \o When(hue # None, << <<"set", "_df_rmsd", hue>>,
                           <<"new", "_df_order", "_df_rmsd">>,
                           <<"new", "_df_rmsd", "_df_rmsd">> >>)
    \o << <<"new", "_df_rmsd", "_df_rmsd">> >>

f_score_prog(y_true, y_pred) ==
    << <<"copy", "_df", "df">>, <<"del", "df">>,
       <<"get", "_df", y_true>>, <<"get", "_df", y_pred>> >>

df_score_prog(groupby, scale) ==
    LET by == IF groupby = None THEN "_dummy" ELSE groupby
    IN  << <<"copy", "_df", "df">>, <<"del", "df">> >>
        \o When(groupby = None, << <<"set", "_df", "_dummy">> >>)
        \o When(scale # None, << <<"get", "_df", "y">>, <<"set", "_df", "y">>,
                                 <<"get", "_df", "y_pred">>, <<"set", "_df", "y_pred">> >>)
        \o << <<"get", "_df", "y_pred">>,
              <<"get", "_df", by>> >>
        \o Repeat(<< <<"new", "_df_i", "_df">>,
                     <<"call", f_score_prog("y", "y_pred"), "df", "_df_i">>,
                     <<"get", "_df_i", by>> >>,
                  NGroups(groupby))
        \o << <<"frame", "_df_score", <<by, "y_ref", "model", "score", "value">>>> >>
        \o When(groupby = None, << <<"new", "_df_score", "_df_score">>,
                                   <<"drop", "_df_score", "_dummy">> >>)
        \o << <<"new", "_df_score", "_df_score">> >>

df_count_prog(na, x_int) ==
    << <<"copy", "_df", "df">>, <<"del", "df">> >>
    \o When(na # "drop", << <<"get", "_df", "x">>, <<"set", "_df", "x">> >>)
    \o (IF x_int # None
        THEN << <<"get", "_df", "x">>, <<"set", "_df", "x">>,
                <<"get", "_df", "x">>, <<"set", "_df", "x">>,
                <<"get", "_df", "x">>, <<"get", "_df", "x">>,
                <<"frame", "_df_xs", <<"x">>>> >>
        ELSE << <<"frame", "_df_xs", <<>>>> >>)
    \o << <<"set", "_df", "_count">>,
          <<"get", "_df", "x">>, <<"set", "_df", "x">>,
          <<"frame", "_df_count", <<"x", "count">>>> >>
    \o When(x_int # None, << <<"new", "_df_count", "_df_count">>,
                             <<"get", "_df_count", "count">>,
                             <<"set", "_df_count", "count">> >>)
    \o << <<"set", "_df_count", "count_None">>,
          <<"set", "_df_count", "count_x">>,
          <<"new", "_df_count", "_df_count">>,
          <<"set", "_df_count", "perc_x">>,
          <<"set", "_df_count", "perc_None">> >>

get_df_corr_prog(groupby, target) ==
    LET by == IF groupby = None THEN "_dummy" ELSE groupby
    IN  << <<"copy", "_df", "df">>, <<"del", "df">>,
           <<"new", "_df", "_df">> >>
        \o When(groupby = None, << <<"set", "_df", "_dummy">> >>)
        \o << <<"get", "_df", by>> >>
        \o Repeat(<< <<"new", "_df_i", "_df">>,
                     <<"frame", "_df_corr_i", <<"col_0", "x", "y">>>>,
                     <<"get", "_df_corr_i", "x">>, <<"set", "_df_corr_i", "x">>,
                     <<"get", "_df_corr_i", "y">>, <<"set", "_df_corr_i", "y">>,
                     <<"frame", "_df_corr_i", <<"col_0", "col_1", "corr">>>>,
                     <<"new", "_df_corr_i", "_df_corr_i">>,
                     <<"get", "_df_i", by>>, <<"set", "_df_corr_i", by>> >>,
                  NGroups(groupby))
        \o << <<"new", "_df_corr", "_df_corr_i">>,
              <<"new", "_df_corr", "_df_corr">> >>
        \o When(groupby = None, << <<"drop", "_df_corr", "_dummy">> >>)
        \o When(target # None, << <<"set", "_df_corr", "col_1">>,
                                  <<"set", "_df_corr", "col_0">>,
                                  <<"new", "_df_corr", "_df_corr">> >>)
        \o << <<"get", "_df_corr", "corr">>, <<"set", "_df_corr", "corr_abs">>,
              <<"new", "_df_corr", "_df_corr">> >>

rank_prog(groupby) ==
    LET by == IF groupby = None THEN "_dummy" ELSE groupby
    IN  << <<"copy", "_df", "df">>, <<"del", "df">> >>
        \o When(groupby = None, << <<"set", "_df", "_dummy">> >>)
        \o << <<"set", "_df", "_row">>,
              <<"get", "_df", "x">>, <<"get", "_df", by>>,
              <<"new", "_df", "_df">>, <<"set", "_df", "rank">>,
              <<"set", "_df", "_rank">>,
              <<"new", "_df", "_df">>,
              <<"get", "_df", "_rank">> >>

(***************************************************************************)
(* The calls explored for the copy discipline: the caller's frame with or  *)
(* without a prediction column and a column named like a helper column.    *)
(***************************************************************************)
CallerFrames ==
    {FrameObject(cols, "in") : cols \in {<<"g", "x", "y">>,
                                         <<"g", "x", "y", "y_pred">>,
                                         <<"g", "x", "y", "_dummy">>,
                                         <<"g", "x", "y", "y_pred", "_dummy">>}}

NoCall == [fn |-> "none"]

CPIdle == cp_pc = "idle" /\ cp_df = FrameObject(<<>>, "in") /\ cp_call = NoCall /\ cp_heap = <<>>

\* the caller passes its frame (the first object of the heap) as df
Call(fn, args, prog) ==
    LET end == Exec(prog, 1, [heap   |-> <<cp_df>>,
                              env    |-> [v \in {"df"} |-> 1],
                              status |-> "running"])
    IN  /\ cp_pc = "call"
        /\ cp_pc' = end.status
        /\ cp_heap' = end.heap
        /\ cp_call' = [fn |-> fn, args |-> args]
        /\ UNCHANGED cp_df

Call_qf ==
    \E a \in [remove_unused_categories : BOOLEAN, reset_index : BOOLEAN] :
        Call("qf", a, qf_prog(a.remove_unused_categories, a.reset_index))

Call_outlier_to_nan ==
    \E a \in [groupby : {None, "g"}, reps : 0..MaxCopyReps] :
        Call("outlier_to_nan", a, outlier_to_nan_prog(a.groupby, a.reps))

Call_k_split ==
    \E a \in [groupby : {None, "g"}, as_series : BOOLEAN] :
        Call("k_split", a, k_split_prog(a.groupby, a.as_series))

Call_rmsd ==
    \E a \in [to_abs : BOOLEAN, standardize : BOOLEAN] :
        Call("rmsd", a, rmsd_prog("x", "g", a.to_abs, a.standardize))

Call_df_rmsd ==
    \E a \in [hue : {None, "y"}, include_rmsd : BOOLEAN] :
        Call("df_rmsd", a, df_rmsd_prog(a.hue, a.include_rmsd))

Call_df_score ==
    \E a \in [groupby : {None, "g"}, scale : {None, "scalar"}] :
        Call("df_score", a, df_score_prog(a.groupby, a.scale))

Call_df_count ==
    \E a \in [na : {"drop", "keep"}, x_int : {None, "int"}] :
        Call("df_count", a, df_count_prog(a.na, a.x_int))

Call_get_df_corr ==
    \E a \in [groupby : {None, "g"}, target : {None, "y"}] :
        Call("get_df_corr", a, get_df_corr_prog(a.groupby, a.target))

Call_rank ==
    \E a \in [groupby : {None, "g"}] :
        Call("rank", a, rank_prog(a.groupby))

CopyNext ==
    \/ Call_qf
    \/ Call_outlier_to_nan
    \/ Call_k_split
    \/ Call_rmsd
    \/ Call_df_rmsd
    \/ Call_df_score
    \/ Call_df_count
    \/ Call_get_df_corr
    \/ Call_rank

(***************************************************************************)
(* Claim about the copy discipline of the helpers.                         *)
(***************************************************************************)
\* C5: after any call of qf, outlier_to_nan, k_split, rmsd, df_rmsd, df_score,
\* df_count, get_df_corr or rank, returned or raised, the caller's frame has
\* the columns, index and values it had before the call.
C5_CallerFrameUntouched ==
    cp_pc \in {"returned", "raised"} => Head(cp_heap) = cp_df

\* df_score raises its KeyError after it wrote the _dummy column into its copy
C5_Witness ==
    /\ cp_pc = "raised"
    /\ cp_call.fn = "df_score"
    /\ \E i \in DOMAIN cp_heap : HasColumn(cp_heap[i], "_dummy") /\ ~HasColumn(cp_df, "_dummy")

(***************************************************************************)
(* k_split called twice on equal input.  The order df.sample draws depends *)
(* on random_state and is drawn anew for each call; the order sort_values  *)
(* leaves equal keys in is fixed by the sort of the build.                 *)
(***************************************************************************)
\* the order the rows of the groups are put in: sampled when sortby is None
GroupOrder(sortby, sorted, sampled) == IF sortby = None THEN sampled ELSE sorted

\* the orders sample(frac=1, random_state=random_state) may draw; sample is
\* not called when sortby is given
SampleOrders(df, sortby) ==
    IF sortby = None THEN PermsOf(NRows(df)) ELSE {[j \in 1..NRows(df) |-> j]}

MaxRowsT == 3

\* the frame f with its column old named new
RenameCol(f, old, new) ==
    [f EXCEPT !.cols = [i \in DOMAIN f.cols |-> IF f.cols[i] = old THEN new ELSE f.cols[i]],
              !.data = [c \in (DOMAIN f.data \ {old}) \cup {new} |->
                           IF c = new THEN f.data[old] ELSE f.data[c]]]

\* the frames of k_split of up to MaxRowsT rows, the sort key in the column v
\* or in a column named index
KTFrames ==
    LET small == {f \in KSplitFrames : NRows(f) <= MaxRowsT}
    IN  small \cup {RenameCol(f, "v", "index") : f \in small}

KTIdle ==
    /\ kt_pc = "idle" /\ kt_df = NoFrame /\ kt_args = NoKArgs
    /\ kt_sorted = <<>> /\ kt_first = NoKOut /\ kt_second = NoKOut

\* k_split(df, k, groupby, sortby, random_state, return_type='s')
KTCall(sampled) ==
    KSplit(kt_df, kt_args.k, kt_args.groupby, kt_args.sortby,
           GroupOrder(kt_args.sortby, kt_sorted, sampled), TRUE, 0)

KTFirst ==
    /\ kt_pc = "call"
    /\ \E sampled \in SampleOrders(kt_df, kt_args.sortby) : kt_first' = KTCall(sampled)
    /\ kt_pc' = "first"
    /\ UNCHANGED <<kt_df, kt_args, kt_sorted, kt_second>>

KTSecond ==
    /\ kt_pc = "first"
    /\ \E sampled \in SampleOrders(kt_df, kt_args.sortby) : kt_second' = KTCall(sampled)
    /\ kt_pc' = "second"
    /\ UNCHANGED <<kt_df, kt_args, kt_sorted, kt_first>>

KTNext == KTFirst \/ KTSecond

(***************************************************************************)
(* Claim about the sortby argument of k_split.                             *)
(***************************************************************************)
\* rows of one group (of the frame, without groupby) with a strictly smaller
\* sort key are in a part that is not later
SlicedFromTheTop(out) ==
    \A a, b \in DOMAIN out.rid :
        (/\ kt_args.groupby # None =>
                kt_df.data[kt_args.groupby][out.rid[a]] = kt_df.data[kt_args.groupby][out.rid[b]]
         /\ kt_df.data[kt_args.sortby][out.rid[a]] < kt_df.data[kt_args.sortby][out.rid[b]])
            => out.values[a] <= out.values[b]

\* C11: with sortby given, rows of a group with a strictly smaller value in the
\* sortby column get a part index that is not larger, and two calls on equal
\* input return equal output whatever random_state is.
C11_SortedAndDeterministic ==
    (kt_pc = "second" /\ kt_args.sortby # None) =>
        /\ kt_first = kt_second
        /\ kt_args.sortby \in DOMAIN kt_df.data =>
               SlicedFromTheTop(kt_first) /\ SlicedFromTheTop(kt_second)

(***************************************************************************)
(* qf(df, fltr, remove_unused_categories=True, reset_index=False).  fltr   *)
(* is held as a frame of its own: its columns and its rows (a Mapping or a *)
(* Series gives one row).  Categories are not modelled: removing unused    *)
(* ones changes no value.                                                  *)
(***************************************************************************)
\* the elementwise == of pandas: False when either side is NaN
Equals(x, y) == ~IsNaN(x) /\ ~IsNaN(y) /\ x = y

\* the entries of xs that occur in ys
list_intersection(xs, ys) == SelectSeq(xs, LAMBDA x : x \in Range(ys))

\* (_df.index == _df.index), and-ed with (_df[_col] == _filter_iloc[_col]) for
\* every column of _filter_df
FilterCondition(_df, _filter_cols, _filter_iloc) ==
    [j \in DOMAIN _df.rid |->
        /\ Equals(_df.index[j], _df.index[j])
        /\ \A i \in DOMAIN _filter_cols :
               Equals(_df.data[_filter_cols[i]][j], _filter_iloc[_filter_cols[i]])]

\* _df[_filter_condition]
BooleanMask(_df, mask) ==
    TakeRows(_df, SelectSeq([j \in DOMAIN _df.rid |-> j], LAMBDA j : mask[j]))

Qf(df, fltr, reset_index) ==
    LET filtered == BooleanMask(df, FilterCondition(df, list_intersection(fltr.cols, df.cols),
                                                    fltr.rows[1]))
    IN  IF reset_index THEN ResetIndex(filtered) ELSE filtered

MaxRowsQ == 3

MaxRowsF == 2

\* frames with the columns a (any values, missing ones too) and b, under
\* ascending labels that are no RangeIndex, one of them possibly missing
QfFrames ==
    { [index |-> [j \in 1..Len(as) |-> IF missing /\ j = 2 THEN NaN ELSE Len(as) + j],
       rid   |-> [j \in 1..Len(as) |-> j],
       cols  |-> <<"a", "b">>,
       data  |-> [c \in {"a", "b"} |->
                    IF c = "a" THEN as ELSE [j \in 1..Len(as) |-> j % 2]]] :
      as \in UNION {SeqsOver({NaN, 0, 1}, N) : N \in 1..MaxRowsQ}, missing \in BOOLEAN }

\* filters over the columns a, b and z (no column of the frames), of one or
\* more rows
QfFilters ==
    { [cols |-> cols,
       rows |-> [r \in 1..(1 + Len(more)) |->
                    [c \in {"a", "b", "z"} |->
                        CASE c = "a" -> IF r = 1 THEN first ELSE more[r - 1]
                          [] c = "b" -> IF r = 1 THEN b1 ELSE 1 - b1
                          [] c = "z" -> 0]]] :
      cols \in {<<"a">>, <<"a", "b">>, <<"z">>, <<"z", "a">>},
      first \in {NaN, 0, 1}, b1 \in {0, 1},
      more \in UNION {SeqsOver({0, 1}, N) : N \in 0..(MaxRowsF - 1)} }

NoFilter == [cols |-> <<>>, rows |-> <<>>]

QFIdle == qf_pc = "idle" /\ qf_df = NoFrame /\ qf_args = [fltr |-> NoFilter] /\ qf_out = NoFrame

QFCall ==
    /\ qf_pc = "call"
    /\ qf_out' = Qf(qf_df, qf_args.fltr, qf_args.reset_index)
    /\ qf_pc' = "done"
    /\ UNCHANGED <<qf_df, qf_args>>

(***************************************************************************)
(* Claim about qf.                                                         *)
(***************************************************************************)
\* the rows of df that equal the first entry of fltr in every common column
RowsEqualToFirstEntry(df, fltr) ==
    SelectSeq([j \in DOMAIN df.rid |-> j],
              LAMBDA j : \A c \in Range(fltr.cols) \cap Range(df.cols) :
                             Equals(df.data[c][j], fltr.rows[1][c]))

\* C12: qf returns exactly the rows of df that equal the first entry of fltr in
\* every column common to fltr and df (all rows without a common column), in
\* their order, with their values and, unless reset_index, their index labels.
C12_RowsEqualToFirstEntry ==
    qf_pc = "done" =>
        /\ qf_out.rid = RowsEqualToFirstEntry(qf_df, qf_args.fltr)
        /\ qf_out.cols = qf_df.cols
        /\ \A j \in DOMAIN qf_out.rid :
               /\ \A c \in DOMAIN qf_df.data : qf_out.data[c][j] = qf_df.data[c][qf_out.rid[j]]
               /\ qf_out.index[j] = IF qf_args.reset_index THEN j - 1
                                    ELSE qf_df.index[qf_out.rid[j]]

(***************************************************************************)
(* mahalanobis(point, df=None, params=None).  The reference frame has the  *)
(* columns a and b; sums are kept as integers, scaled by the number of     *)
(* rows N: N*N*(N-1) times the covariance matrix is N times the matrix     *)
(* ((Saa, Sab), (Sab, Sbb)).  A squared distance is an exact fraction.     *)
(***************************************************************************)
RECURSIVE SumOf(_)
SumOf(xs) == IF xs = <<>> THEN 0 ELSE Head(xs) + SumOf(Tail(xs))

\* N * sum((x - mean(x)) * (y - mean(y)))
ScaledCoSum(xs, ys) ==
    Len(xs) * SumOf([j \in DOMAIN xs |-> xs[j] * ys[j]]) - SumOf(xs) * SumOf(ys)

\* the determinant of _df.cov(), up to a positive factor
CovDeterminant(_df) ==
    ScaledCoSum(_df.a, _df.a) * ScaledCoSum(_df.b, _df.b)
        - ScaledCoSum(_df.a, _df.b) * ScaledCoSum(_df.a, _df.b)

\* np.linalg.inv raises LinAlgError on a singular matrix
LinAlgError(_df) == CovDeterminant(_df) = 0

\* the squared distance of the point (xa, xb) from the mean of _df under the
\* inverse covariance matrix
SquaredDistance(xa, xb, _df) ==
    LET N == Len(_df.a)
        u == N * xa - SumOf(_df.a)
        v == N * xb - SumOf(_df.b)
    IN  <<(N - 1) * (ScaledCoSum(_df.b, _df.b) * u * u
                     - 2 * ScaledCoSum(_df.a, _df.b) * u * v
                     + ScaledCoSum(_df.a, _df.a) * v * v),
          N * CovDeterminant(_df)>>

\* the distances of the rows of point, or of the one point
Distances(point, _df) ==
    IF point.kind = "DataFrame"
    THEN [kind   |-> "list",
          values |-> [i \in DOMAIN point.a |-> SquaredDistance(point.a[i], point.b[i], _df)]]
    ELSE [kind |-> "float", value |-> SquaredDistance(point.a[1], point.b[1], _df)]

\* no reference frame passed: df is None
NoReference == [a |-> <<>>, b |-> <<>>]

\* the reference frame: point itself when df is None
Reference(point, df) == IF df = NoReference THEN [a |-> point.a, b |-> point.b] ELSE df

\* point is a DataFrame (its rows as a and b), a Series or an array (one row)
Mahalanobis(point, df) ==
    IF LinAlgError(Reference(point, df)) THEN [kind |-> "float", value |-> RNaN]
    ELSE Distances(point, Reference(point, df))

MaxRowsM == 3

MaxPoints == 2

MaxValM == 1

\* reference frames of two rows or more
MahalanobisFrames ==
    UNION {{[a |-> as, b |-> bs] : as, bs \in SeqsOver(0..MaxValM, N)} : N \in 2..MaxRowsM}

MahalanobisPoints ==
    UNION {{[kind |-> "DataFrame", a |-> as, b |-> bs] :
               as, bs \in SeqsOver(0..MaxValM, m)} : m \in 1..MaxPoints}
    \cup {[kind |-> kind, a |-> <<xa>>, b |-> <<xb>>] :
            kind \in {"Series", "ndarray"}, xa, xb \in 0..MaxValM}

NoPoint == [kind |-> "none"]

MHIdle == mh_pc = "idle" /\ mh_point = NoPoint /\ mh_df = NoReference /\ mh_out = NoPoint

MHCall ==
    /\ mh_pc = "call"
    /\ mh_out' = Mahalanobis(mh_point, mh_df)
    /\ mh_pc' = "done"
    /\ UNCHANGED <<mh_point, mh_df>>

(***************************************************************************)
(* Claim about mahalanobis.                                                *)
(***************************************************************************)
\* C13: when the covariance matrix of the reference frame cannot be inverted,
\* mahalanobis returns NaN for each requested point: one NaN for one point, a
\* list of m NaN for a DataFrame of m points.
C13_NaNForEachPoint ==
    (mh_pc = "done" /\ LinAlgError(Reference(mh_point, mh_df))) =>
        IF mh_point.kind = "DataFrame"
        THEN /\ mh_out.kind = "list"
             /\ Len(mh_out.values) = Len(mh_point.a)
             /\ \A i \in DOMAIN mh_out.values : RIsNaN(mh_out.values[i])
        ELSE mh_out.kind = "float" /\ RIsNaN(mh_out.value)

(***************************************************************************)
(* rmsd(x, df, group, return_df_paired=False, agg_func='median',           *)
(* standardize=False, to_abs=False).  The frame is [x, g]: the column x    *)
(* as exact fractions, the group keys g.  The result is kept as the exact  *)
(* fraction under the final np.sqrt; the float results are taken as exact, *)
(* except the mean of a constant column, where rounding decides whether    *)
(* the standard deviation is 0.                                            *)
(***************************************************************************)
\* the correctly rounded double of |a|
FloatOf(a) ==
    RoundNearestEven(NatDivSmall(FromInt(Abs(a[1])), a[2]).q,
                     NatDivSmall(FromInt(Abs(a[1])), a[2]).r # 0)

RECURSIVE FSumCopies(_, _)
\* values.sum() over n copies of X, added one after the other
FSumCopies(X, n) == IF n <= 1 THEN X ELSE FAdd(FSumCopies(X, n - 1), X)

\* the_sum / count
FDivInt(X, n) == RoundNearestEven(NatDivSmall(X, n).q, NatDivSmall(X, n).r # 0)

\* Series.mean() of n copies of the double of a, compared with that double:
\* 0 when the mean is exact, else the sign of mean - value
MeanError(a, n) == NatCmp(FDivInt(FSumCopies(FloatOf(a), n), n), FloatOf(a))

RFinite(xs) == SelectSeq(xs, LAMBDA a : ~RIsNaN(a))

IsConstant(xs) == \A i, j \in DOMAIN xs : xs[i] = xs[j]

\* _df[x].abs()
AbsColumn(xs) == [j \in DOMAIN xs |-> IF RIsNaN(xs[j]) THEN RNaN ELSE RAbs(xs[j])]

\* _df[x] - _df[x].mean() on a constant column: NaN where the column is, 0
\* where the mean is exact, else -1 or 1 in units of the rounding error of the
\* mean (the sign of value - mean)
ConstantResiduals(xs, a, n) ==
    [j \in DOMAIN xs |->
        IF RIsNaN(xs[j]) THEN RNaN
        ELSE IF a[1] >= 0 THEN <<0 - MeanError(a, n), 1>> ELSE <<MeanError(a, n), 1>>]

\* _df[x] - _df[x].mean()
Residuals(xs) ==
    IF RFinite(xs) # <<>> /\ IsConstant(RFinite(xs))
    THEN ConstantResiduals(xs, RFinite(xs)[1], RCount(xs))
    ELSE [j \in DOMAIN xs |-> RSub(xs[j], RMean(xs))]

\* the square of Series.std() in the units of the residuals rs: NaN below two
\* values
StdSquared(rs) ==
    IF RCount(rs) < 2 THEN RNaN ELSE RDivInt(RSquares(rs, <<0, 1>>), RCount(rs) - 1)

\* a / b for fractions: NaN for 0 / 0 and where either side is NaN
RDiv(a, b) ==
    IF RIsNaN(a) \/ RIsNaN(b) \/ b[1] = 0 THEN RNaN
    ELSE RNorm(a[1] * b[2], a[2] * b[1])

\* (_df[x] - _df[x].mean()) / _df[x].std(): the residuals, to be divided by
\* the standard deviation; all NaN where the standard deviation is NaN or 0
Standardized(rs) ==
    IF RIsNaN(StdSquared(rs)) \/ StdSquared(rs)[1] = 0
    THEN [j \in DOMAIN rs |-> RNaN]
    ELSE rs

\* the column x before the groupby, and the square of the factor it still
\* has to be divided by
RmsdColumn(xs, standardize) == IF standardize THEN Standardized(Residuals(xs)) ELSE xs

RmsdScale(xs, standardize) ==
    IF standardize /\ ~RIsNaN(StdSquared(Residuals(xs))) /\ StdSquared(Residuals(xs))[1] # 0
    THEN StdSquared(Residuals(xs))
    ELSE <<1, 1>>

RECURSIVE RInsertSorted(_, _)
RInsertSorted(a, xs) ==
    IF xs = <<>> THEN <<a>>
    ELSE IF RLe(a, Head(xs)) THEN <<a>> \o xs
         ELSE <<Head(xs)>> \o RInsertSorted(a, Tail(xs))

RECURSIVE RSortAsc(_)
RSortAsc(xs) == IF xs = <<>> THEN <<>> ELSE RInsertSorted(Head(xs), RSortAsc(Tail(xs)))

\* the median of the sorted values xs
MedianSorted(xs) ==
    IF xs = <<>> THEN RNaN
    ELSE IF Len(xs) % 2 = 1 THEN xs[(Len(xs) + 1) \div 2]
    ELSE RDivInt(RAdd(xs[Len(xs) \div 2], xs[Len(xs) \div 2 + 1]), 2)

\* Series.median(), NaN skipped
RMedian(xs) == MedianSorted(RSortAsc(RFinite(xs)))

\* .agg({x: ['count', agg_func]}) on the values of one group
Aggregate(xs, agg_func) ==
    [count |-> RCount(xs), agg |-> IF agg_func = "mean" THEN RMean(xs) ELSE RMedian(xs)]

RECURSIVE GroupValues(_, _, _)
\* the values of the rows whose key is k
GroupValues(xs, g, k) ==
    IF xs = <<>> THEN <<>>
    ELSE (IF Head(g) = k THEN <<Head(xs)>> ELSE <<>>) \o GroupValues(Tail(xs), Tail(g), k)

\* _df.groupby([group]).agg(...).reset_index(): one row per group key, keys
\* sorted, rows without key left out
GroupTable(xs, g, keys, agg_func) ==
    [i \in DOMAIN keys |-> Aggregate(GroupValues(xs, g, keys[i]), agg_func)]

\* the rows of _df_paired: the pairs of distinct groups
PairedRows(t) ==
    SelectSeq(Concat([i \in DOMAIN t |-> [j \in DOMAIN t |-> <<i, j>>]]),
              LAMBDA p : p[1] # p[2])

\* _df_paired['weight']
PairWeights(t, pairs) == [p \in DOMAIN pairs |-> t[pairs[p][1]].count * t[pairs[p][2]].count]

\* _df_paired['weighted_squared_difference']
PairWsd(t, pairs) ==
    [p \in DOMAIN pairs |->
        RMul(<<t[pairs[p][1]].count * t[pairs[p][2]].count, 1>>,
             RSquare(RSub(t[pairs[p][1]].agg, t[pairs[p][2]].agg)))]

\* sum of wsd / sum of weight: 0. / 0 is NaN
RmsdOfTable(t, pairs) == RDiv(RSum(PairWsd(t, pairs)), <<SumOf(PairWeights(t, pairs)), 1>>)

RmsdOfColumn(xs, g, agg_func) ==
    RmsdOfTable(GroupTable(xs, g, SortedKeys(g), agg_func),
                PairedRows(GroupTable(xs, g, SortedKeys(g), agg_func)))

\* the value under the square root of the result
Rmsd(df, agg_func, standardize, to_abs) ==
    RDiv(RmsdOfColumn(RmsdColumn(IF to_abs THEN AbsColumn(df.x) ELSE df.x, standardize),
                      df.g, agg_func),
         RmsdScale(IF to_abs THEN AbsColumn(df.x) ELSE df.x, standardize))

MaxRowsR == 4

MaxValR == 1

\* the group column: one level, two levels taking turns, the first row a
\* group of its own, two levels with the key of the first row missing
GroupPatterns == {"single", "alternate", "first", "missing"}

GroupColumn(pattern, N) ==
    [j \in 1..N |->
        CASE pattern = "single" -> 0
          [] pattern = "alternate" -> j % 2
          [] pattern = "first" -> IF j = 1 THEN 1 ELSE 0
          [] OTHER -> IF j = 1 THEN NaN ELSE j % 2]

\* the column x: whole numbers or tenths, NaN where the value is missing
RmsdValues(den) == {RNaN} \cup {RNorm(v, den) : v \in (0 - MaxValR)..MaxValR}

RmsdFrames ==
    UNION {{[x |-> xs, g |-> GroupColumn(p, N)] :
               xs \in SeqsOver(RmsdValues(1), N) \cup SeqsOver(RmsdValues(10), N),
               p \in {q \in GroupPatterns : q = "missing" => N > 1}} : N \in 1..MaxRowsR}

RmsdCalls ==
    [fn : {"rmsd"}, agg_func : {"median", "mean"}, standardize : BOOLEAN, to_abs : BOOLEAN]

(***************************************************************************)
(* f_score(y_true, y_pred, df, dropna=False, f=r2_score, groupby=None).    *)
(* A frame is [cols, rows]: the column names and one record per row.  The  *)
(* score f computes is kept as the application [f, y_true, y_pred].        *)
(***************************************************************************)
Raise(exc) == [kind |-> "raise", exc |-> exc]

NanResult == [kind |-> "nan"]

ColumnOf(rows, col) == [j \in DOMAIN rows |-> rows[j][col]]

\* the scoring functions of sklearn.metrics validate their input and raise
\* ValueError on NaN; np.std(np.abs(x - y)) does not
RejectsNaN(f) == f # "_f_stdae"

\* f(_df[_y_true], _df[_y_pred])
ScoreCall(f, yt, yp) ==
    IF RejectsNaN(f) /\ \E j \in DOMAIN yt : IsNaN(yt[j]) \/ IsNaN(yp[j])
    THEN Raise("ValueError")
    ELSE [kind |-> "score", f |-> f, y_true |-> yt, y_pred |-> yp]

\* _df.dropna(subset=subset)
DropNa(rows, subset) == SelectSeq(rows, LAMBDA r : \A c \in subset : ~IsNaN(r[c]))

\* the scores of the groups, in the order of the sorted keys, up to the first
\* one that raises
RECURSIVE GroupScores(_, _, _, _, _, _, _)
GroupScores(f, y_true, y_pred, rows, groupby, keys, acc) ==
    IF keys = <<>> THEN [kind |-> "DataFrame", rows |-> acc]
    ELSE IF ScoreCall(f, ColumnOf(SelectSeq(rows, LAMBDA r : r[groupby] = Head(keys)), y_true),
                         ColumnOf(SelectSeq(rows, LAMBDA r : r[groupby] = Head(keys)), y_pred)).kind
            = "raise"
    THEN Raise("ValueError")
    ELSE GroupScores(f, y_true, y_pred, rows, groupby, Tail(keys),
             Append(acc,
                 [g     |-> Head(keys),
                  value |-> ScoreCall(f,
                      ColumnOf(SelectSeq(rows, LAMBDA r : r[groupby] = Head(keys)), y_true),
                      ColumnOf(SelectSeq(rows, LAMBDA r : r[groupby] = Head(keys)), y_pred))]))

\* the part of f_score after dropna; pd.concat raises ValueError on an empty
\* list of group results
FScoreOf(f, y_true, y_pred, rows, groupby) ==
    IF rows = <<>> THEN NanResult
    ELSE IF groupby = None THEN ScoreCall(f, ColumnOf(rows, y_true), ColumnOf(rows, y_pred))
    ELSE IF SortedKeys(ColumnOf(rows, groupby)) = <<>> THEN Raise("ValueError")
    ELSE GroupScores(f, y_true, y_pred, rows, groupby, SortedKeys(ColumnOf(rows, groupby)), <<>>)

\* groupby is None, the name of the column ("str") or a list holding it
\* ("list").  DataFrame.dropna takes a single label as subset from pandas 1.5
\* on and raises TypeError on it before: scalar_subset tells which pandas runs.
FScore(y_true, y_pred, df, dropna, f, groupby, scalar_subset) ==
    IF ~dropna THEN FScoreOf(f, y_true, y_pred, df.rows, IF groupby = None THEN None ELSE "g")
    ELSE IF groupby = None THEN FScoreOf(f, y_true, y_pred, DropNa(df.rows, {y_true, y_pred}), None)
    ELSE IF groupby = "str" /\ ~scalar_subset THEN Raise("TypeError")
    ELSE FScoreOf(f, y_true, y_pred, DropNa(DropNa(df.rows, {y_true, y_pred}), {"g"}), "g")

MaxRowsS == 2

FScoreRows == [y_true : {NaN, 1}, y_pred : {NaN, 0, 1}, g : {NaN, 0, 1}]

FScoreFrames ==
    UNION {{[cols |-> {"y_true", "y_pred", "g"}, rows |-> rs] : rs \in SeqsOver(FScoreRows, N)} :
              N \in 0..MaxRowsS}

FScoreCalls ==
    [fn : {"f_score"}, dropna : BOOLEAN, groupby : {None, "str", "list"}, scalar_subset : BOOLEAN]

NoScoreFrame == [cols |-> {}, rows |-> <<>>]

SCIdle == sc_pc = "idle" /\ sc_call = [fn |-> None] /\ sc_df = NoScoreFrame /\ sc_out = [kind |-> None]

RmsdCall ==
    /\ sc_pc = "call"
    /\ sc_call.fn = "rmsd"
    /\ sc_out' = [kind  |-> "float",
                  value |-> Rmsd(sc_df, sc_call.agg_func, sc_call.standardize, sc_call.to_abs)]
    /\ sc_pc' = "done"
    /\ UNCHANGED <<sc_call, sc_df>>

FScoreCall ==
    /\ sc_pc = "call"
    /\ sc_call.fn = "f_score"
    /\ sc_out' = FScore("y_true", "y_pred", sc_df, sc_call.dropna, "r2_score", sc_call.groupby,
                        sc_call.scalar_subset)
    /\ sc_pc' = "done"
    /\ UNCHANGED <<sc_call, sc_df>>

ScoresNext == RmsdCall \/ FScoreCall

(***************************************************************************)
(* Claims about rmsd and f_score.                                          *)
(***************************************************************************)
\* the group column has one level: no pair of distinct groups
SingleLevel(df) == Len(SortedKeys(df.g)) = 1

\* the values of x are all the same
ZeroVariance(df) == IsConstant(RFinite(df.x))

\* the frame f_score is left with is empty, at once or after dropna
EmptyForFScore(df, call) ==
    \/ df.rows = <<>>
    \/ /\ call.dropna
       /\ DropNa(df.rows, IF call.groupby = None THEN {"y_true", "y_pred"}
                          ELSE {"y_true", "y_pred", "g"}) = <<>>

\* C14: degenerate inputs give NaN and raise nothing: rmsd returns NaN when
\* the group column has a single level or when standardize=True and x has zero
\* variance, and f_score returns NaN when the frame is empty, at once or after
\* dropna, with or without groupby.
C14_DegenerateInputsGiveNaN ==
    sc_pc = "done" =>
        /\ (sc_call.fn = "rmsd" /\ SingleLevel(sc_df)) =>
               sc_out.kind = "float" /\ RIsNaN(sc_out.value)
        /\ (sc_call.fn = "rmsd" /\ sc_call.standardize /\ ZeroVariance(sc_df)) =>
               sc_out.kind = "float" /\ RIsNaN(sc_out.value)
        /\ (sc_call.fn = "f_score" /\ EmptyForFScore(sc_df, sc_call)) =>
               sc_out.kind = "nan"

\* the count-weighted mean squared difference between the group means, over
\* the ordered pairs of distinct groups
MeanSquaredDifferenceOfMeans(df) == RmsdOfColumn(df.x, df.g, "mean")

\* C16: rmsd(x, df, group) with default arguments is the count-weighted
\* root-mean-square difference between the group means of x: its square is the
\* sum over the ordered pairs of distinct groups (i, j) of
\* n_i * n_j * (mean_i - mean_j)^2 divided by the sum of n_i * n_j over the same
\* pairs, n_g the number of non-missing values of x in group g and mean_g their
\* mean.
C16_RmsDifferenceOfGroupMeans ==
    (sc_pc = "done" /\ sc_call.fn = "rmsd" /\ sc_call.agg_func = "median"
        /\ ~sc_call.standardize /\ ~sc_call.to_abs) =>
        sc_out.value = MeanSquaredDifferenceOfMeans(sc_df)

(***************************************************************************)
(* df_score(df, y_true, pred_suffix, scores=None, pivot=True, scale=None,  *)
(* groupby=None), called with the one target 'y' and pivot=False: the      *)
(* result is the long table of one row per model, score and group.  The    *)
(* argument scores is <<>> for None.                                       *)
(***************************************************************************)
\* '{}_{}'.format(_y_ref, _model_name) for the target 'y'
PredColumn(m) == IF m = "a" THEN "y_a" ELSE "y_b"

DefaultScores == <<"r2", "rmse", "mae", "stdae", "medae">>

\* eval(_score): the function each shorthand passes to f_score
ScoringFunction(score) ==
    CASE score = "r2" -> "r2_score"
      [] score = "rmse" -> "_f_rmse"
      [] score = "mae" -> "mean_absolute_error"
      [] score = "stdae" -> "_f_stdae"
      [] OTHER -> "median_absolute_error"

\* the columns `*= scale` is applied to, in the order of the statements
ScaledColumns(pred_suffix) == <<"y">> \o [i \in DOMAIN pred_suffix |-> PredColumn(pred_suffix[i])]

\* _df[col] *= scale for every col of cs
ScaleRows(rows, cs, scale) ==
    [j \in DOMAIN rows |->
        [c \in DOMAIN rows[j] |->
            IF c \in cs /\ ~IsNaN(rows[j][c]) THEN rows[j][c] * scale ELSE rows[j][c]]]

\* the frames _df.groupby(_groupby) iterates over and their keys: the whole
\* frame under the key of the column _dummy, else one frame per key of g,
\* keys sorted, rows without key left out
ScoreGroups(rows, groupby) ==
    IF groupby = None THEN (IF rows = <<>> THEN <<>> ELSE <<[key |-> None, rows |-> rows]>>)
    ELSE [i \in DOMAIN SortedKeys(ColumnOf(rows, "g")) |->
             [key  |-> SortedKeys(ColumnOf(rows, "g"))[i],
              rows |-> SelectSeq(rows, LAMBDA r : r.g = SortedKeys(ColumnOf(rows, "g"))[i])]]

\* the loop over the groups for one model and one score: the rows appended
\* to _df_score, up to the first score that raises
RECURSIVE GroupLoop(_, _, _, _)
GroupLoop(m, score, groups, acc) ==
    IF groups = <<>> THEN [kind |-> "DataFrame", rows |-> acc]
    ELSE IF FScoreOf(ScoringFunction(score), "y", PredColumn(m), Head(groups).rows, None).kind
            = "raise"
    THEN FScoreOf(ScoringFunction(score), "y", PredColumn(m), Head(groups).rows, None)
    ELSE GroupLoop(m, score, Tail(groups),
             Append(acc,
                 [y_ref |-> "y", model |-> m, score |-> score, g |-> Head(groups).key,
                  value |-> FScoreOf(ScoringFunction(score), "y", PredColumn(m),
                                     Head(groups).rows, None)]))

\* the loops over the models and the scores; pairs holds the (model, score)
\* still to come
RECURSIVE ScoreLoop(_, _, _, _)
ScoreLoop(cols, pairs, groups, acc) ==
    IF pairs = <<>> THEN [kind |-> "DataFrame", rows |-> acc]
    ELSE IF PredColumn(Head(pairs)[1]) \notin cols THEN Raise("KeyError")
    ELSE IF GroupLoop(Head(pairs)[1], Head(pairs)[2], groups, <<>>).kind = "raise"
    THEN GroupLoop(Head(pairs)[1], Head(pairs)[2], groups, <<>>)
    ELSE ScoreLoop(cols, Tail(pairs), groups,
                   acc \o GroupLoop(Head(pairs)[1], Head(pairs)[2], groups, <<>>).rows)

ModelScorePairs(pred_suffix, scores) ==
    Concat([i \in DOMAIN pred_suffix |-> [j \in DOMAIN scores |-> <<pred_suffix[i], scores[j]>>]])

\* scale is <<>> for None or <<c>> for the number c; `_df[col] *= scale` raises
\* KeyError for a column that is not there
DfScore(df, pred_suffix, scores, scale, groupby) ==
    IF scale # <<>> /\ \E i \in DOMAIN pred_suffix : PredColumn(pred_suffix[i]) \notin df.cols
    THEN Raise("KeyError")
    ELSE ScoreLoop(df.cols,
                   ModelScorePairs(pred_suffix, IF scores = <<>> THEN DefaultScores ELSE scores),
                   ScoreGroups(IF scale = <<>> THEN df.rows
                               ELSE ScaleRows(df.rows, Range(ScaledColumns(pred_suffix)), scale[1]),
                               groupby),
                   <<>>)

MaxRowsD == 2

\* frames with the columns y and g and any of the prediction columns y_a and
\* y_b; a column that is not there holds nothing
DfScoreRows(preds, N) ==
    {r \in SeqsOver([y : {NaN, 1}, y_a : {NaN, 0}, y_b : {NaN, 0}, g : {NaN, 0, 1}], N) :
        \A j \in 1..N : \A c \in {"y_a", "y_b"} \ preds : IsNaN(r[j][c])}

DfScoreFrames ==
    UNION {UNION {{[cols |-> {"y", "g"} \cup preds, rows |-> rs] : rs \in DfScoreRows(preds, N)} :
                     preds \in SUBSET {"y_a", "y_b"}} : N \in 0..MaxRowsD}

DfScoreCalls ==
    [pred_suffix : {<<"a">>, <<"a", "b">>, <<"b", "a">>}, scores : {<<>>, <<"stdae">>},
     scale : {<<>>, <<2>>}, groupby : {None, "g"}]

DSIdle ==
    ds_pc = "idle" /\ ds_call = [pred_suffix |-> <<>>] /\ ds_df = NoScoreFrame
        /\ ds_out = [kind |-> None]

DfScoreCall ==
    /\ ds_pc = "call"
    /\ ds_out' = DfScore(ds_df, ds_call.pred_suffix, ds_call.scores, ds_call.scale,
                         ds_call.groupby)
    /\ ds_pc' = "done"
    /\ UNCHANGED <<ds_call, ds_df>>

(***************************************************************************)
(* Claim about df_score.                                                   *)
(***************************************************************************)
\* some prediction column '<y>_<m>', m in pred_suffix, is not a column of df
PredictionColumnMissing(df, pred_suffix) ==
    \E i \in DOMAIN pred_suffix : PredColumn(pred_suffix[i]) \notin df.cols

\* C15: whenever some prediction column '<y>_<m>' is not a column of df,
\* df_score raises KeyError and returns no score table.
C15_MissingColumnRaisesKeyError ==
    (ds_pc = "done" /\ PredictionColumnMissing(ds_df, ds_call.pred_suffix)) =>
        ds_out = Raise("KeyError")

(***************************************************************************)
(* drop_zero_cols(df): df[df.columns[(df != 0).any()]].  A missing entry   *)
(* (None or NaN) is NaN in the model; the column names are distinct.       *)
(***************************************************************************)
\* df != 0, entry by entry: a missing entry differs from 0
NotZero(v) == IsNaN(v) \/ v # 0

\* (df != 0).any() for the column c
AnyNotZero(df, c) == \E j \in DOMAIN df.data[c] : NotZero(df.data[c][j])

\* df.columns[(df != 0).any()]
NonZeroColumns(df) == SelectSeq(df.cols, LAMBDA c : AnyNotZero(df, c))

\* df[cs]: the columns cs in that order, every row
SelectColumns(df, cs) ==
    [df EXCEPT !.cols = cs, !.data = [d \in Range(cs) |-> df.data[d]]]

DropZeroCols(df) == SelectColumns(df, NonZeroColumns(df))

MaxRowsZ == 2

DropZeroFrames ==
    UNION {{[index |-> [j \in 1..N |-> j - 1],
             rid   |-> [j \in 1..N |-> j],
             cols  |-> <<"a", "b", "c">>,
             data  |-> [c \in {"a", "b", "c"} |->
                          CASE c = "a" -> as [] c = "b" -> bs [] c = "c" -> cs]] :
               as, bs, cs \in SeqsOver({NaN, 0, 1}, N)} : N \in 0..MaxRowsZ}

DZIdle == dz_pc = "idle" /\ dz_df = NoFrame /\ dz_out = NoFrame

DZCall ==
    /\ dz_pc = "call"
    /\ dz_out' = DropZeroCols(dz_df)
    /\ dz_pc' = "done"
    /\ UNCHANGED dz_df

(***************************************************************************)
(* Claim about drop_zero_cols.                                             *)
(***************************************************************************)
\* every entry of the column c is 0 or missing
AllZeroOrMissing(df, c) == \A j \in DOMAIN df.data[c] : IsNaN(df.data[c][j]) \/ df.data[c][j] = 0

\* C17: drop_zero_cols drops exactly the columns whose values are all 0 or
\* None: a column is absent from the result iff every one of its entries is 0
\* or missing, and the remaining columns keep their order, rows and values.
C17_DropsAllZeroOrMissingColumns ==
    dz_pc = "done" =>
        /\ dz_out.cols = SelectSeq(dz_df.cols, LAMBDA c : ~AllZeroOrMissing(dz_df, c))
        /\ dz_out.index = dz_df.index
        /\ \A c \in Range(dz_out.cols) : dz_out.data[c] = dz_df.data[c]

(***************************************************************************)
(* change_span(s, steps=5): s.shift(-steps).ffill() != s.shift(steps).bfill() *)
(* The values of s are held as fractions, RNaN where shift leaves a gap.   *)
(***************************************************************************)
\* != entry by entry: NaN differs from everything, NaN included
NotEqual(a, b) == RIsNaN(a) \/ RIsNaN(b) \/ a # b

ChangeSpan(s, steps) ==
    [j \in DOMAIN s |-> NotEqual(FFill(Shift(s, 0 - steps))[j], BFill(Shift(s, steps))[j])]

MaxLenC == 5

MaxStepsC == 3

MaxValC == 1

ChangeSpanSeries ==
    UNION {{[j \in 1..N |-> <<vs[j], 1>>] : vs \in SeqsOver(0..MaxValC, N)} : N \in 0..MaxLenC}

CSIdle == cs_pc = "idle" /\ cs_s = <<>> /\ cs_steps = 0 /\ cs_out = <<>>

CSCall ==
    /\ cs_pc = "call"
    /\ cs_out' = ChangeSpan(cs_s, cs_steps)
    /\ cs_pc' = "done"
    /\ UNCHANGED <<cs_s, cs_steps>>

(***************************************************************************)
(* Claim about change_span.  Positions count from 0 as in the statement:   *)
(* position i is entry i + 1 of the sequence.                              *)
(***************************************************************************)
\* j is a changepoint of s: s[j] != s[j-1]
Changepoint(s, j) == j \in 1..(Len(s) - 1) /\ s[j + 1] # s[j]

\* C18: element i of change_span(s, steps) is True iff there is a changepoint
\* j (s[j] != s[j-1]) with i - steps < j <= i + steps, for a series of any
\* length; a constant series yields all False.
C18_TrueAroundChangepoints ==
    cs_pc = "done" =>
        /\ Len(cs_out) = Len(cs_s)
        /\ \A i \in 0..(Len(cs_s) - 1) :
               cs_out[i + 1] <=>
                   \E j \in 1..(Len(cs_s) - 1) :
                       Changepoint(cs_s, j) /\ i - cs_steps < j /\ j <= i + cs_steps

(***************************************************************************)
(* entry_points.main and install_from_github, step by step.  ep_log is the *)
(* history of what the run did to the outside: the request and the file    *)
(* operations, in the order they were made.                                *)
(***************************************************************************)
Commands == {"install", "Install", "update", "help"}

\* sys.argv: the program name, then what the user typed
ArgvInputs ==
    {<<"hhpy">>} \cup {<<"hhpy", c>> : c \in Commands} \cup {<<"hhpy", c, "-v">> : c \in Commands}

\* what the user may type at the prompt
Answers == {"y", "Y", "yes", "n", ""}

\* what requests.get may return: the zip archive, or any other content (the
\* status of the response is not looked at)
Responses == {"zip", "other"}

\* the working directory before the run
DirectoryInputs == SUBSET {"temp.zip", "README"}

NotAsked == "not asked"

NoResponse == "no response"

EPIdle ==
    /\ ep_pc = "idle" /\ ep_argv = <<>> /\ ep_answer = NotAsked /\ ep_r = NoResponse
    /\ ep_dir0 = {} /\ ep_dir = {} /\ ep_log = <<>>

\* lines 30-38: argv[1] raises IndexError when no command was typed; the
\* RuntimeError objects are built and dropped, never raised
Main ==
    /\ ep_pc = "main"
    /\ ep_pc' = IF Len(ep_argv) >= 2 /\ ep_argv[2] = "install" THEN "input" ELSE "returned"
    /\ UNCHANGED <<ep_argv, ep_answer, ep_r, ep_dir0, ep_dir, ep_log>>

Confirmed_AnyCase(user_response) == user_response \in {"y", "Y"}

\* line 47: user_response != 'y' returns
Confirmed(user_response) == user_response = "y"

\* lines 45-48
Input ==
    /\ ep_pc = "input"
    /\ \E user_response \in Answers :
           /\ ep_answer' = user_response
           /\ ep_pc' = IF Confirmed(user_response) THEN "get" ELSE "returned"
    /\ UNCHANGED <<ep_argv, ep_r, ep_dir0, ep_dir, ep_log>>

\* lines 51-52: requests.get returns a response or raises
Get ==
    /\ ep_pc = "get"
    /\ ep_log' = Append(ep_log, "GET")
    /\ \/ \E r \in Responses : ep_r' = r /\ ep_pc' = "write"
       \/ ep_r' = NoResponse /\ ep_pc' = "raised"
    /\ UNCHANGED <<ep_argv, ep_answer, ep_dir0, ep_dir>>

\* lines 53-54
WriteZip ==
    /\ ep_pc = "write"
    /\ ep_log' = Append(ep_log, "write temp.zip")
    /\ ep_dir' = ep_dir \cup {"temp.zip"}
    /\ ep_pc' = "extract"
    /\ UNCHANGED <<ep_argv, ep_answer, ep_r, ep_dir0>>

\* lines 57-58: ZipFile raises BadZipFile on a file that is no zip archive
Extract ==
    /\ ep_pc = "extract"
    /\ IF ep_r = "zip"
       THEN /\ ep_log' = Append(ep_log, "extract")
            /\ ep_dir' = ep_dir \cup {"extracted"}
            /\ ep_pc' = "remove"
       ELSE /\ ep_pc' = "raised"
            /\ UNCHANGED <<ep_log, ep_dir>>
    /\ UNCHANGED <<ep_argv, ep_answer, ep_r, ep_dir0>>

\* lines 61-62
Remove ==
    /\ ep_pc = "remove"
    /\ ep_log' = Append(ep_log, "remove temp.zip")
    /\ ep_dir' = ep_dir \ {"temp.zip"}
    /\ ep_pc' = "returned"
    /\ UNCHANGED <<ep_argv, ep_answer, ep_r, ep_dir0>>

InstallNext == Main \/ Input \/ Get \/ WriteZip \/ Extract \/ Remove

(***************************************************************************)
(* Claim about the installer.                                              *)
(***************************************************************************)
InstallSteps == <<"GET", "write temp.zip", "extract", "remove temp.zip">>

\* main was started with first argument 'install' and the user answered
\* exactly 'y'
ExplicitRequest == Len(ep_argv) >= 2 /\ ep_argv[2] = "install" /\ ep_answer = "y"

\* C19: a GET is issued only if main was started with first argument
\* 'install' and the user answered exactly 'y'; then exactly one GET is issued
\* and the steps occur in the order GET, write temp.zip, extract, remove
\* temp.zip (all four in a run that returns); for any other argument or answer
\* no request is made and no file is written or removed.
C19_DownloadOnlyOnRequest ==
    /\ ep_log # <<>> => ExplicitRequest
    /\ ep_log = SubSeq(InstallSteps, 1, Len(ep_log))
    /\ (ExplicitRequest /\ ep_pc \notin {"get"}) => Len(SelectSeq(ep_log, LAMBDA e : e = "GET")) = 1
    /\ (ExplicitRequest /\ ep_pc = "returned") => ep_log = InstallSteps
    /\ ~ExplicitRequest => ep_log = <<>> /\ ep_dir = ep_dir0

\* a run that was confirmed and has returned
C19_Witness == ep_pc = "returned" /\ ExplicitRequest /\ ep_log = InstallSteps

(***************************************************************************)
(* modelling.Models.__init__(self, args, name=None, df=None, X_ref=None,  *)
(* y_ref=None).  Objects live in a heap, a sequence of records; an object  *)
(* is named by its position.  A Model holds the position of the estimator  *)
(* it wraps, an estimator holds its parameters.                            *)
(***************************************************************************)
\* df=None
NoObject == 0

Estimator(params) == [cls |-> "estimator", params |-> params]

ModelObject(name, model) == [cls |-> "Model", name |-> name, model |-> model]

\* 'model_{}'.format(_it)
DefaultModelName(it) == IF it = 0 THEN "model_0" ELSE IF it = 1 THEN "model_1" ELSE "model_n"

\* lines 402-408: an object that is no Model is wrapped into a new Model that
\* holds it; gives the heap after the wrapping
EnsureModel(heap, m, it) ==
    IF heap[m].cls = "Model" THEN heap
    ELSE Append(heap, ModelObject(DefaultModelName(it), m))

\* the Model _model stands for after lines 402-408
EnsuredModel(heap, m) == IF heap[m].cls = "Model" THEN m ELSE Len(heap) + 1

\* deepcopy(_model): a new estimator and a new Model that holds it, appended
\* to the heap; the copy is the last object
DeepCopy(heap, m) ==
    heap \o <<heap[heap[m].model], [heap[m] EXCEPT !.model = Len(heap) + 1]>>

AppendNew(names, name) == IF name \in Range(names) THEN names ELSE Append(names, name)

\* lines 396-411: the loop over args, it the count of the models seen
RECURSIVE ModelsLoop(_, _, _, _, _)
ModelsLoop(heap, args, it, _models, _model_names) ==
    IF args = <<>> THEN [heap |-> heap, models |-> _models, model_names |-> _model_names]
    ELSE ModelsLoop(DeepCopy(EnsureModel(heap, Head(args), it), EnsuredModel(heap, Head(args))),
                    Tail(args), it + 1,
                    Append(_models, Len(EnsureModel(heap, Head(args), it)) + 2),
                    AppendNew(_model_names,
                              EnsureModel(heap, Head(args), it)[EnsuredModel(heap, Head(args))].name))

\* lines 414-425: the attributes are assigned in turn; df.copy() raises
\* AttributeError when df is None
AssignAttributes(loop, df, X_ref, y_ref) ==
    IF df = NoObject THEN [raised |-> "AttributeError", heap |-> loop.heap]
    ELSE [raised     |-> None,
          heap       |-> Append(loop.heap, loop.heap[df]),
          collection |-> [models |-> loop.models, df |-> Len(loop.heap) + 1,
                          X_ref |-> X_ref, y_ref |-> y_ref,
                          model_names |-> loop.model_names]]

ModelsInit(heap, args, df, X_ref, y_ref) ==
    AssignAttributes(ModelsLoop(heap, args, 0, <<>>, <<>>), df, X_ref, y_ref)

MaxParam == 1

MaxModels == 2

\* the caller's objects: two Models with their estimators, an estimator that
\* is no Model, and a DataFrame
CallerHeaps ==
    {<<Estimator(p1), ModelObject("a", 1), Estimator(p2), ModelObject("b", 3), Estimator(p3),
       [cls |-> "DataFrame", data |-> d]>> : p1, p2, p3 \in 0..MaxParam, d \in 0..MaxParam}

Passable == {2, 4, 5}

CallerFrame == 6

ModelArgs == UNION {SeqsOver(Passable, n) : n \in 1..MaxModels}

NoCollection == [models |-> <<>>]

MDIdle ==
    /\ md_pc = "idle" /\ md_heap0 = <<>> /\ md_heap = <<>> /\ md_args = <<>> /\ md_df = NoObject
    /\ md_self = NoCollection

\* Models(model, ..., df=df, X_ref=['x'], y_ref=['y'])
MDConstruct ==
    /\ md_pc = "new"
    /\ md_heap' = ModelsInit(md_heap, md_args, md_df, <<"x">>, <<"y">>).heap
    /\ IF ModelsInit(md_heap, md_args, md_df, <<"x">>, <<"y">>).raised = None
       THEN /\ md_self' = ModelsInit(md_heap, md_args, md_df, <<"x">>, <<"y">>).collection
            /\ md_pc' = "constructed"
       ELSE /\ md_self' = NoCollection
            /\ md_pc' = "raised"
    /\ UNCHANGED <<md_heap0, md_args, md_df>>

\* the estimators the caller passed in, directly or inside a Model
PassedEstimators(heap, args) ==
    {IF heap[args[i]].cls = "Model" THEN heap[args[i]].model ELSE args[i] : i \in DOMAIN args}

\* the caller goes on to use an object it passed in: the parameters of the
\* estimator change
MDUseOriginal ==
    /\ md_pc = "constructed"
    /\ \E e \in PassedEstimators(md_heap, md_args) : \E p \in 0..MaxParam :
           /\ md_heap[e].params # p
           /\ md_heap' = [md_heap EXCEPT ![e].params = p]
    /\ md_pc' = "used"
    /\ UNCHANGED <<md_heap0, md_args, md_df, md_self>>

ModelsNext == MDConstruct \/ MDUseOriginal

(***************************************************************************)
(* Claim about Models.                                                     *)
(***************************************************************************)
\* the stored model m holds what the model passed as argument i held when the
\* collection was built, in objects of its own
IndependentCopy(heap0, heap, m, a) ==
    /\ m \notin DOMAIN heap0
    /\ heap[m].cls = "Model"
    /\ heap[m].model \notin DOMAIN heap0
    /\ heap[heap[m].model] = heap0[IF heap0[a].cls = "Model" THEN heap0[a].model ELSE a]

\* C20: Models(model, ..., X_ref=..., y_ref=...) without df constructs a
\* collection, and the stored models are independent deep copies of the
\* objects passed in: they stay as they were when the caller changes an
\* object it passed.
C20_DfOptionalAndModelsCopied ==
    md_pc \in {"constructed", "used", "raised"} =>
        /\ md_pc # "raised"
        /\ Len(md_self.models) = Len(md_args)
        /\ \A i \in DOMAIN md_args :
               IndependentCopy(md_heap0, md_heap, md_self.models[i], md_args[i])

(***************************************************************************)
(* modelling.force_model(model), with dict_to_model, Model.__init__,       *)
(* _BaseModel.to_dict and _BaseModel.from_dict.  A Model is a record of    *)
(* its attributes and of the object it is (id); a dictionary is a function *)
(* on its keys.  X_ref and y_ref are <<>> for None.                        *)
(***************************************************************************)
ModelAttributes == <<"__name__", "name", "model", "X_ref", "y_ref", "is_fit">>

\* Model(model, name, X_ref, y_ref) built as the object id
NewModel(id, model, name, X_ref, y_ref) ==
    [cls |-> "Model", id |-> id, attrs |->
        ("__name__" :> "cf.Model") @@ ("name" :> name) @@ ("model" :> model)
            @@ ("X_ref" :> X_ref) @@ ("y_ref" :> y_ref) @@ ("is_fit" :> FALSE)]

\* _BaseModel.to_dict: every attribute of __attributes__ under its name
ToDict(m) == [a \in Range(ModelAttributes) |-> m.attrs[a]]

\* _BaseModel.from_dict: every attribute of __attributes__ that is a key of
\* dct is set from it
FromDict(m, dct) ==
    [m EXCEPT !.attrs = [a \in Range(ModelAttributes) |->
                            IF a \in DOMAIN dct THEN dct[a] ELSE m.attrs[a]]]

Returned(m) == [kind |-> "return", model |-> m]

\* the object a call builds
FreshId == "new"

\* dict_to_model(dic)
DictToModel(dic) ==
    IF dic["__name__"] = "Model"
    THEN Returned(FromDict(NewModel(FreshId, None, "pred", <<>>, <<>>), dic))
    ELSE Raise("ValueError")

\* force_model(model): model is a Model, another object or a Mapping
ForceModel(model) ==
    IF model.cls # "Mapping"
    THEN IF model.cls # "Model"
         THEN Returned(NewModel(FreshId, model.id, "pred", <<>>, <<>>))
         ELSE Returned(model)
    ELSE IF "__name__" \in DOMAIN model.items
         THEN IF model.items["__name__"] \in {"hhpy.modelling.Model"}
              THEN DictToModel(model.items)
              ELSE Raise("ValueError")
         ELSE Raise("KeyError")

\* the Models of the caller, fitted or not
ModelInputs ==
    {[NewModel("m", model, name, X_ref, y_ref) EXCEPT !.attrs["is_fit"] = is_fit] :
        model \in {None, "LinearRegression()"}, name \in {"pred", "a"},
        X_ref \in {<<>>, <<"x">>}, y_ref \in {<<>>, <<"y">>}, is_fit \in BOOLEAN}

\* other objects: estimators
ObjectInputs == {[cls |-> "object", id |-> id] : id \in {"LinearRegression()", "Ridge()"}}

Without(d, key) == [k \in (DOMAIN d) \ {key} |-> d[k]]

\* dictionaries: what to_dict gives for a Model, the same under another
\* __name__, and without __name__
MappingInputs ==
    {[cls |-> "Mapping", items |-> ToDict(m)] : m \in ModelInputs}
    \cup {[cls |-> "Mapping", items |-> [ToDict(m) EXCEPT !["__name__"] = n]] :
             m \in ModelInputs, n \in {"hhpy.modelling.Model", "Model", "hhpy.modelling.Models"}}
    \cup {[cls |-> "Mapping", items |-> Without(ToDict(m), "__name__")] : m \in ModelInputs}

NoArgument == [cls |-> None]

FMIdle == fm_pc = "idle" /\ fm_model = NoArgument /\ fm_out = [kind |-> None]

FMCall ==
    /\ fm_pc = "call"
    /\ fm_out' = ForceModel(fm_model)
    /\ fm_pc' = "done"
    /\ UNCHANGED fm_model

(***************************************************************************)
(* Claim about force_model.                                                *)
(***************************************************************************)
\* a and b agree on name, X_ref, y_ref and is_fit
EquivalentModels(a, b) ==
    \A k \in {"name", "X_ref", "y_ref", "is_fit"} : a.attrs[k] = b.attrs[k]

\* C21: force_model returns a Model instance as it is, wraps an object that
\* is no Mapping in a new Model, and converts the dictionary m.to_dict() of a
\* Model m back into a Model with the name, X_ref, y_ref and is_fit of m.
C21_ForceModelConverts ==
    fm_pc = "done" =>
        /\ fm_model.cls = "Model" => fm_out = Returned(fm_model)
        /\ fm_model.cls = "object" =>
               /\ fm_out.kind = "return"
               /\ fm_out.model.cls = "Model"
               /\ fm_out.model.id # fm_model.id
               /\ fm_out.model.attrs["model"] = fm_model.id
        /\ \A m \in ModelInputs :
               (fm_model.cls = "Mapping" /\ fm_model.items = ToDict(m)) =>
                   /\ fm_out.kind = "return"
                   /\ fm_out.model.cls = "Model"
                   /\ EquivalentModels(fm_out.model, m)

(***************************************************************************)
(* Models.train (modelling.py): k_split, fit, predict and score in turn on  *)
(* the frame self.df refers to.  Frames live in a heap, so that a frame the *)
(* caller passes and the frame of the collection can be one object.  A      *)
(* column name is the sequence of the parts its format string joins with    *)
(* '_'; the values of the data columns are left out, the split index and   *)
(* the test flag of every row are kept.                                     *)
(***************************************************************************)
fit_valid_fit_types == <<"train_test", "k_cross", "final">>

\* the frame of the collection after the constructor, and the frame a caller
\* passes to train
OwnFrame == "own"
PassedFrame == "passed"

\* a frame with the feature column x and the target columns, not split yet
DataFrame(N, y_ref) ==
    [columns |-> <<<<"x">>>> \o [i \in DOMAIN y_ref |-> <<y_ref[i]>>],
     index |-> [i \in 1..N |-> i],
     k_index |-> <<>>,
     test |-> <<>>]

\* df[name] = ...: a new column is appended, an old one is overwritten
SetColumn(frame, name) ==
    IF name \in Range(frame.columns) THEN frame
    ELSE [frame EXCEPT !.columns = Append(@, name)]

\* ds.k_split(df=self.df, return_type='s') with groupby None and sortby None:
\* the rows are sampled into the order `order` and row at position p of it
\* gets p // _k_split
SplitIndex(N, k, order) == [i \in 1..N |-> (order[i] - 1) \div CeilDiv(N, k)]

\* self.df['_k_index'] = k_split(df=self.df, return_type='s', ...)
ModelsKSplit(frame, k, order) ==
    [SetColumn(frame, <<"_k_index">>) EXCEPT
        !.k_index = SplitIndex(Len(frame.index), k, order)]

SeqMax(s) == CHOOSE m \in Range(s) : \A x \in Range(s) : x <= m

\* the _k_tests of Models.fit for a fit type
KTests(fit_type, k_index) ==
    CASE fit_type = "train_test" -> {SeqMax(k_index)}
      [] fit_type = "k_cross" -> Range(k_index)
      [] OTHER -> {-1}

\* the estimator is fit on the rows _k_index != _k_test; an estimator given
\* no row raises ValueError
FitRaises(fit_type, k_index) ==
    \E t \in KTests(fit_type, k_index) : \A i \in DOMAIN k_index : k_index[i] = t

\* the assertions of Models.fit
FitAsserts(self, frame, fit_type) ==
    /\ fit_type \in Range(fit_valid_fit_types)
    /\ ~(fit_type # "final" /\ <<"_k_index">> \notin Range(frame.columns))
    /\ fit_type # "cross"

\* self.df['_test'] = self.df['_k_index'] == _k_tests[0]
SetTest(frame) ==
    [SetColumn(frame, <<"_test">>) EXCEPT
        !.test = [i \in DOMAIN frame.k_index |-> frame.k_index[i] = SeqMax(frame.k_index)]]

\* Model.fit(X=self.X_ref, y=self.y_ref, df=_df_train, df_test=_df_test)
ModelFit(model, y_ref) ==
    [model EXCEPT !.y_ref = IF @ = <<>> THEN y_ref ELSE @, !.is_fit = TRUE]

\* the collection after Models.fit
FitModels(self, fit_type) ==
    [self EXCEPT !.models = [i \in DOMAIN self.models |-> ModelFit(self.models[i], self.y_ref)],
                 !.fit_type = fit_type]

\* the columns '{}_{}'.format(_, _model.name) of all models, in the order
\* Models.predict concatenates them
RECURSIVE PredictionColumns(_)
PredictionColumns(models) ==
    IF models = <<>> THEN <<>>
    ELSE [i \in DOMAIN Head(models).y_ref |-> <<Head(models).y_ref[i], Head(models).name>>]
         \o PredictionColumns(Tail(models))

\* for _col in _df.columns: self.df[_col] = _df[_col]
RECURSIVE SetColumns(_, _)
SetColumns(frame, names) ==
    IF names = <<>> THEN frame
    ELSE SetColumns(SetColumn(frame, Head(names)), Tail(names))

\* self.df.query('_test')
QueryTest(frame) ==
    LET pos == SelectSeq([i \in DOMAIN frame.index |-> i], LAMBDA i : frame.test[i])
    IN  [columns |-> frame.columns,
         index |-> [j \in DOMAIN pos |-> frame.index[pos[j]]],
         k_index |-> [j \in DOMAIN pos |-> frame.k_index[pos[j]]],
         test |-> [j \in DOMAIN pos |-> frame.test[pos[j]]]]

\* the scoring functions Models.score applies when scores is None
ModelsScores == <<"r2", "rmse", "mae", "stdae", "medae">>

\* _score(_y_ref, _y_ref_pred, df=_df): the score of two columns of the
\* rows of _df
ScoreValue(score, y_ref, pred, frame) ==
    [kind |-> "score", f |-> score, y_true |-> <<y_ref>>, y_pred |-> pred, rows |-> frame.index]

\* the rows the three loops of Models.score append, y_ref outermost and the
\* score innermost
ScoreRows(y_ref, model_names, scores, frame) ==
    LET M == Len(model_names)
        S == Len(scores)
    IN  [i \in 1..(Len(y_ref) * M * S) |->
            LET y == y_ref[((i - 1) \div (M * S)) + 1]
                m == model_names[(((i - 1) \div S) % M) + 1]
                s == scores[((i - 1) % S) + 1]
            IN  [y_ref |-> y, model |-> m, score |-> s,
                 value |-> ScoreValue(s, y, <<y, m>>, frame)]]

\* the frame _df Models.score evaluates, as a sequence of one frame; the
\* empty sequence is None, which _df is for the fit type 'k_cross'
ScoreFrame(self, frame) ==
    CASE self.fit_type = "train_test" -> <<QueryTest(frame)>>
      [] self.fit_type = "final" -> <<frame>>
      [] OTHER -> <<>>

MaxRowsTr == 3
MaxKTr == 3

TrainFitTypes == Range(fit_valid_fit_types) \cup {"cross"}
TrainModelNames == {<<"a">>, <<"a", "b">>}
TrainTargets == {<<"y">>, <<"y", "z">>}

\* the calls of train on a collection built with a frame of its own
TrainArgs ==
    [df : {None, PassedFrame}, k : 2..MaxKTr, fit_type : TrainFitTypes,
     N : 2..MaxRowsTr, names : TrainModelNames, y_ref : TrainTargets]

\* Models(model, ..., df=df, X_ref='x', y_ref=y_ref): self.df = df.copy();
\* df_score is the sequence of the rows of the score frame, empty while the
\* attribute is None
NewModels(names, y_ref) ==
    [models |-> [i \in DOMAIN names |-> [name |-> names[i], y_ref |-> <<>>, is_fit |-> FALSE]],
     fit_type |-> None,
     df |-> OwnFrame,
     X_ref |-> <<"x">>,
     y_ref |-> y_ref,
     model_names |-> names,
     df_score |-> <<>>]

NoTrainArgs == [df |-> None, k |-> 0, fit_type |-> None, N |-> 0, names |-> <<>>, y_ref |-> <<>>]
NoHeap == [f \in {OwnFrame, PassedFrame} |-> DataFrame(0, <<>>)]

TRIdle ==
    /\ tr_pc = "idle"
    /\ tr_args = NoTrainArgs
    /\ tr_heap = NoHeap
    /\ tr_self = NewModels(<<>>, <<>>)
    /\ tr_exc = None

\* if df is not None: self.df = df
TrainAssign ==
    /\ tr_pc = "train"
    /\ tr_self' = IF tr_args.df # None THEN [tr_self EXCEPT !.df = tr_args.df] ELSE tr_self
    /\ tr_pc' = "k_split"
    /\ UNCHANGED <<tr_args, tr_heap, tr_exc>>

\* self.k_split(k=k, groupby=groupby, sortby=sortby, ...)
TrainKSplit ==
    /\ tr_pc = "k_split"
    /\ \E order \in PermsOf(tr_args.N) :
         tr_heap' = [tr_heap EXCEPT ![tr_self.df] = ModelsKSplit(@, tr_args.k, order)]
    /\ tr_pc' = "fit"
    /\ UNCHANGED <<tr_args, tr_self, tr_exc>>

\* self.fit(fit_type=fit_type, do_print=do_print)
TrainFit ==
    /\ tr_pc = "fit"
    /\ LET frame == tr_heap[tr_self.df]
           fit_type == tr_args.fit_type
       IN  IF ~FitAsserts(tr_self, frame, fit_type)
           THEN /\ tr_pc' = "raised"
                /\ tr_exc' = "AssertionError"
                /\ UNCHANGED <<tr_heap, tr_self>>
           ELSE /\ tr_heap' = IF fit_type = "train_test"
                              THEN [tr_heap EXCEPT ![tr_self.df] = SetTest(frame)]
                              ELSE tr_heap
                /\ IF FitRaises(fit_type, frame.k_index)
                   THEN /\ tr_pc' = "raised"
                        /\ tr_exc' = "ValueError"
                        /\ UNCHANGED tr_self
                   ELSE /\ tr_pc' = "predict"
                        /\ tr_self' = FitModels(tr_self, fit_type)
                        /\ UNCHANGED tr_exc
    /\ UNCHANGED tr_args

\* self.predict(ensemble=ensemble, do_print=do_print) with ensemble False
TrainPredict ==
    /\ tr_pc = "predict"
    /\ IF tr_self.fit_type = None \/ \E i \in DOMAIN tr_self.models : ~tr_self.models[i].is_fit
       THEN /\ tr_pc' = "raised"
            /\ tr_exc' = "ValueError"
            /\ UNCHANGED tr_heap
       ELSE /\ tr_heap' = [tr_heap EXCEPT ![tr_self.df] =
                              SetColumns(@, PredictionColumns(tr_self.models))]
            /\ tr_pc' = "score"
            /\ UNCHANGED tr_exc
    /\ UNCHANGED <<tr_args, tr_self>>

\* self.score(scores=scores, scale=scale, ...) with scores None and scale
\* None; `_y_ref_pred not in _df.columns` is the first use of _df
TrainScore ==
    /\ tr_pc = "score"
    /\ LET _df == ScoreFrame(tr_self, tr_heap[tr_self.df])
       IN  IF tr_self.fit_type = None
           THEN /\ tr_pc' = "raised"
                /\ tr_exc' = "ValueError"
                /\ UNCHANGED tr_self
           ELSE IF _df = <<>>
           THEN /\ tr_pc' = "raised"
                /\ tr_exc' = "AttributeError"
                /\ UNCHANGED tr_self
           ELSE /\ tr_pc' = "done"
                /\ tr_self' = [tr_self EXCEPT !.df_score =
                                  ScoreRows(tr_self.y_ref, tr_self.model_names, ModelsScores, _df[1])]
                /\ UNCHANGED tr_exc
    /\ UNCHANGED <<tr_args, tr_heap>>

TrainNext == TrainAssign \/ TrainKSplit \/ TrainFit \/ TrainPredict \/ TrainScore

\* the combinations of target, model name and score of a collection
ScoreCombinations ==
    {<<tr_self.y_ref[i], tr_self.model_names[j], ModelsScores[s]>> :
        i \in DOMAIN tr_self.y_ref, j \in DOMAIN tr_self.model_names, s \in DOMAIN ModelsScores}

\* C22: for every valid fit_type the sequence of train completes without
\* error, leaves fit_type equal to the requested type and stores in df_score
\* exactly one value for every combination of y_ref, model name and score
C22_TrainCompletesForEveryFitType ==
    (tr_args.fit_type \in Range(fit_valid_fit_types) /\ tr_pc \in {"done", "raised"}) =>
        /\ tr_pc = "done"
        /\ tr_self.fit_type = tr_args.fit_type
        /\ \A c \in ScoreCombinations :
              Cardinality({i \in DOMAIN tr_self.df_score :
                  <<tr_self.df_score[i].y_ref, tr_self.df_score[i].model,
                    tr_self.df_score[i].score>> = c}) = 1
        /\ Len(tr_self.df_score) = Cardinality(ScoreCombinations)

\* C23: train(df=frame) leaves the frame the caller passed as it was: no
\* column such as _k_index, _test or a prediction column is added to it
C23_TrainLeavesCallerFrameUnchanged ==
    (tr_pc # "idle" /\ tr_args.df # None) =>
        tr_heap[PassedFrame] = DataFrame(tr_args.N, tr_args.y_ref)

(***************************************************************************)
(* grouped_interpolate (ds.py): the column of every group is interpolated   *)
(* on its own inside try/except ValueError and the groups are concatenated. *)
(* A frame is [index, g, v]: the index labels, the group key of every row   *)
(* (NaN for a missing key) and the column as exact rationals.               *)
(***************************************************************************)
\* the values of xs at the positions pos
TakeAt(xs, pos) == [j \in DOMAIN pos |-> xs[pos[j]]]

\* interpolate_1d returns a column without a missing value, or without a
\* valid one, as it is
NeedsInterpolation(xs) ==
    /\ \E j \in DOMAIN xs : RIsNaN(xs[j])
    /\ \E j \in DOMAIN xs : ~RIsNaN(xs[j])

\* Series.interpolate(method=method) raises ValueError: always when method
\* is None, which is not a method name, and for 'slinear' when the spline of
\* order 1 scipy fits through the valid values has fewer than two of them
InterpolateRaises(method, xs) ==
    \/ method = None
    \/ /\ method = "slinear"
       /\ NeedsInterpolation(xs)
       /\ Cardinality({j \in DOMAIN xs : ~RIsNaN(xs[j])}) < 2

\* method='slinear': linear in the index labels between the two valid
\* neighbours by label, NaN outside the range of the valid labels
SLinear(labels, xs) ==
    [j \in DOMAIN xs |->
        IF ~RIsNaN(xs[j]) THEN xs[j]
        ELSE LET below == {p \in DOMAIN xs : ~RIsNaN(xs[p]) /\ labels[p] < labels[j]}
                 above == {q \in DOMAIN xs : ~RIsNaN(xs[q]) /\ labels[q] > labels[j]}
             IN  IF below = {} \/ above = {} THEN RNaN
                 ELSE LET p == CHOOSE p \in below : \A o \in below : labels[o] <= labels[p]
                          q == CHOOSE q \in above : \A o \in above : labels[q] <= labels[o]
                      IN  RAdd(xs[p],
                               RDivInt(RMul(RSub(xs[q], xs[p]), <<labels[j] - labels[p], 1>>),
                                       labels[q] - labels[p]))]

\* _df_i[col].interpolate(method=method) where it does not raise
InterpolateBy(method, labels, xs) ==
    IF method = "linear" THEN Interpolate(xs)
    ELSE IF NeedsInterpolation(xs) THEN SLinear(labels, xs)
    ELSE xs

\* a handler that blanks the column of a group that fails instead of
\* keeping it
TryInterpolate_Blank(method, labels, xs) ==
    IF InterpolateRaises(method, xs) THEN [j \in DOMAIN xs |-> RNaN]
    ELSE InterpolateBy(method, labels, xs)

\* the try/except of one group: the column is kept where interpolate raises
\* ValueError
TryInterpolate(method, labels, xs) ==
    IF InterpolateRaises(method, xs) THEN xs ELSE InterpolateBy(method, labels, xs)

\* the rows of the group with key k, in frame order
GroupRows(df, k) == Positions(df.g, LAMBDA x : x = k)

\* pd.concat(_dfs_i)[col] over the groups with the keys `keys`
RECURSIVE ConcatGroups(_, _, _)
ConcatGroups(df, method, keys) ==
    IF keys = <<>> THEN [index |-> <<>>, values |-> <<>>]
    ELSE LET pos == GroupRows(df, Head(keys))
             labels == TakeAt(df.index, pos)
             rest == ConcatGroups(df, method, Tail(keys))
         IN  [index |-> labels \o rest.index,
              values |-> TryInterpolate(method, labels, TakeAt(df.v, pos)) \o rest.values]

\* grouped_interpolate(df, col, groupby, method): groupby iterates over the
\* sorted keys and leaves out the rows with a missing key; pd.concat raises
\* ValueError when there is no group
GroupedInterpolate(df, method) ==
    LET keys == SortedKeys(df.g)
        out == ConcatGroups(df, method, keys)
    IN  IF keys = <<>> THEN Raise("ValueError")
        ELSE [kind |-> "return", index |-> out.index, values |-> out.values]

MaxRowsG == 5

InterpolateMethods == {None, "linear", "slinear"}

\* the index labels: a RangeIndex, or labels that are not equally spaced
IndexLabels(N) == {[i \in 1..N |-> i - 1], [i \in 1..N |-> i * i]}

\* the group keys: two groups, the key of the first row may be missing
GroupKeySeqs(N) == {ks \in [1..N -> {NaN, 0, 1}] : \A i \in 2..N : ~IsNaN(ks[i])}

\* the column: every value is missing or a number that is not linear in the
\* row
ColumnSeqs(N) == {vs \in [1..N -> {RNaN} \cup {<<i * i * i, 1>> : i \in 1..N}] :
                    \A i \in 1..N : RIsNaN(vs[i]) \/ vs[i] = <<i * i * i, 1>>}

GroupedInterpolateFrames ==
    UNION {[index : IndexLabels(N), g : GroupKeySeqs(N), v : ColumnSeqs(N)] : N \in 1..MaxRowsG}

NoGroupedFrame == [index |-> <<>>, g |-> <<>>, v |-> <<>>]

GIIdle ==
    /\ gi_pc = "idle"
    /\ gi_df = NoGroupedFrame
    /\ gi_method = None
    /\ gi_out = [kind |-> "None"]

GICall ==
    /\ gi_pc = "call"
    /\ gi_out' = GroupedInterpolate(gi_df, gi_method)
    /\ gi_pc' = "done"
    /\ UNCHANGED <<gi_df, gi_method>>

\* the column of the group of row i
GroupColumn_i(i) == TakeAt(gi_df.v, GroupRows(gi_df, gi_df.g[i]))

\* interpolating the column of the group of row i raises ValueError
GroupFails(i) == InterpolateRaises(gi_method, GroupColumn_i(i))

\* the rows that belong to a group
GroupedRows == {i \in DOMAIN gi_df.g : ~IsNaN(gi_df.g[i])}

\* the value of row i in the interpolated column of its group
InterpolatedValue(i) ==
    LET pos == GroupRows(gi_df, gi_df.g[i])
        rank == CHOOSE r \in DOMAIN pos : pos[r] = i
    IN  InterpolateBy(gi_method, TakeAt(gi_df.index, pos), GroupColumn_i(i))[rank]

\* C24: if interpolating the column of one group raises ValueError, no
\* exception reaches the caller, the rows of that group keep their values,
\* the rows of every other group hold the interpolated values, and the
\* returned column has exactly one entry per row of every group, under the
\* row's original index label
C24_FailingGroupIsTolerated ==
    (gi_pc = "done" /\ \E i \in GroupedRows : GroupFails(i)) =>
        /\ gi_out.kind = "return"
        /\ Len(gi_out.index) = Cardinality(GroupedRows)
        /\ \A i \in GroupedRows :
              /\ Cardinality({p \in DOMAIN gi_out.index : gi_out.index[p] = gi_df.index[i]}) = 1
              /\ \E p \in DOMAIN gi_out.index :
                    /\ gi_out.index[p] = gi_df.index[i]
                    /\ gi_out.values[p] =
                          IF GroupFails(i) THEN gi_df.v[i] ELSE InterpolatedValue(i)

\* one group fails and has a missing value that stays missing, another
\* group is interpolated and a missing value of it is filled
C24_Witness ==
    /\ gi_pc = "done"
    /\ gi_out.kind = "return"
    /\ gi_method = "slinear"
    /\ \E i \in GroupedRows : GroupFails(i) /\ RIsNaN(gi_df.v[i])
    /\ \E i \in GroupedRows :
          /\ ~GroupFails(i)
          /\ RIsNaN(gi_df.v[i])
          /\ \E p \in DOMAIN gi_out.index :
                gi_out.index[p] = gi_df.index[i] /\ ~RIsNaN(gi_out.values[p])

(***************************************************************************)
(* Specifications: one per helper, its arguments drawn in the initial      *)
(* state and the other helpers idle.                                       *)
(***************************************************************************)
QSInit ==
    /\ qs_pc = "call"
    /\ qs_s \in SeriesInputs
    /\ qs_n \in 1..MaxN
    /\ qs_out = NoSeries
    /\ OTIdle
    /\ KSIdle
    /\ CPIdle
    /\ KTIdle
    /\ QFIdle
    /\ MHIdle
    /\ SCIdle
    /\ DSIdle
    /\ DZIdle
    /\ CSIdle
    /\ EPIdle
    /\ MDIdle
    /\ FMIdle
    /\ TRIdle
    /\ GIIdle

SpecQS ==
    QSInit
    /\ [][QSCall /\ UNCHANGED <<ot_vars, ks_vars, cp_vars, kt_vars, qf_vars, mh_vars, sc_vars, ds_vars, dz_vars, cs_vars, ep_vars, md_vars, fm_vars, tr_vars, gi_vars>>]_vars

OTInit ==
    /\ ot_pc = "call"
    /\ ot_df \in OutlierFrames
    /\ ot_args \in {a \in [groupby : {None, "g"}, std_cutoff : {1, DefaultStdCutoff},
                           reps : 0..MaxReps, grouped : BOOLEAN] :
                         a.grouped => a.groupby = "g"}
    /\ ot_out = NoFrame
    /\ QSIdle
    /\ KSIdle
    /\ CPIdle
    /\ KTIdle
    /\ QFIdle
    /\ MHIdle
    /\ SCIdle
    /\ DSIdle
    /\ DZIdle
    /\ CSIdle
    /\ EPIdle
    /\ MDIdle
    /\ FMIdle
    /\ TRIdle
    /\ GIIdle

SpecOT ==
    OTInit
    /\ [][OTCall /\ UNCHANGED <<qs_vars, ks_vars, cp_vars, kt_vars, qf_vars, mh_vars, sc_vars, ds_vars, dz_vars, cs_vars, ep_vars, md_vars, fm_vars, tr_vars, gi_vars>>]_vars

KSInit ==
    /\ ks_pc = "call"
    /\ ks_df \in KSplitFrames
    /\ ks_args \in {a \in [k : 1..MaxK, groupby : {None, "g"},
                           sortby : {None, "index", "v"},
                           as_series : BOOLEAN, return_type : 0..MaxK] :
                         a.as_series => a.return_type = 0}
    /\ ks_out = NoKOut
    /\ QSIdle
    /\ OTIdle
    /\ CPIdle
    /\ KTIdle
    /\ QFIdle
    /\ MHIdle
    /\ SCIdle
    /\ DSIdle
    /\ DZIdle
    /\ CSIdle
    /\ EPIdle
    /\ MDIdle
    /\ FMIdle
    /\ TRIdle
    /\ GIIdle

SpecKS ==
    KSInit
    /\ [][KSCall /\ UNCHANGED <<qs_vars, ot_vars, cp_vars, kt_vars, qf_vars, mh_vars, sc_vars, ds_vars, dz_vars, cs_vars, ep_vars, md_vars, fm_vars, tr_vars, gi_vars>>]_vars

CopyInit ==
    /\ cp_pc = "call"
    /\ cp_df \in CallerFrames
    /\ cp_call = NoCall
    /\ cp_heap = <<cp_df>>
    /\ QSIdle
    /\ OTIdle
    /\ KSIdle
    /\ KTIdle
    /\ QFIdle
    /\ MHIdle
    /\ SCIdle
    /\ DSIdle
    /\ DZIdle
    /\ CSIdle
    /\ EPIdle
    /\ MDIdle
    /\ FMIdle
    /\ TRIdle
    /\ GIIdle

SpecCopy ==
    CopyInit
    /\ [][CopyNext /\ UNCHANGED <<qs_vars, ot_vars, ks_vars, kt_vars, qf_vars, mh_vars, sc_vars, ds_vars, dz_vars, cs_vars, ep_vars, md_vars, fm_vars, tr_vars, gi_vars>>]_vars

KTInit ==
    /\ kt_pc = "call"
    /\ kt_df \in KTFrames
    /\ kt_args \in {a \in [k : 1..MaxK, groupby : {None, "g"}, sortby : {None, "index", "v"}] :
                         a.sortby = "v" => "v" \in DOMAIN kt_df.data}
    /\ kt_sorted \in OrdersFor(kt_df, kt_args.groupby,
                               IF kt_args.sortby = None THEN "index" ELSE kt_args.sortby)
    /\ kt_first = NoKOut
    /\ kt_second = NoKOut
    /\ QSIdle
    /\ OTIdle
    /\ KSIdle
    /\ CPIdle
    /\ QFIdle
    /\ MHIdle
    /\ SCIdle
    /\ DSIdle
    /\ DZIdle
    /\ CSIdle
    /\ EPIdle
    /\ MDIdle
    /\ FMIdle
    /\ TRIdle
    /\ GIIdle

SpecKSTwice ==
    KTInit
    /\ [][KTNext /\ UNCHANGED <<qs_vars, ot_vars, ks_vars, cp_vars, qf_vars, mh_vars, sc_vars, ds_vars, dz_vars, cs_vars, ep_vars, md_vars, fm_vars, tr_vars, gi_vars>>]_vars

QFInit ==
    /\ qf_pc = "call"
    /\ qf_df \in QfFrames
    /\ qf_args \in [fltr : QfFilters, reset_index : BOOLEAN]
    /\ qf_out = NoFrame
    /\ QSIdle
    /\ OTIdle
    /\ KSIdle
    /\ CPIdle
    /\ KTIdle
    /\ MHIdle
    /\ SCIdle
    /\ DSIdle
    /\ DZIdle
    /\ CSIdle
    /\ EPIdle
    /\ MDIdle
    /\ FMIdle
    /\ TRIdle
    /\ GIIdle

SpecQF ==
    QFInit
    /\ [][QFCall /\ UNCHANGED <<qs_vars, ot_vars, ks_vars, cp_vars, kt_vars, mh_vars, sc_vars, ds_vars, dz_vars, cs_vars, ep_vars, md_vars, fm_vars, tr_vars, gi_vars>>]_vars

MHInit ==
    /\ mh_pc = "call"
    /\ mh_point \in MahalanobisPoints
    /\ mh_df \in {df \in MahalanobisFrames \cup {NoReference} :
                    df = NoReference => mh_point.kind = "DataFrame" /\ Len(mh_point.a) > 1}
    /\ mh_out = NoPoint
    /\ QSIdle
    /\ OTIdle
    /\ KSIdle
    /\ CPIdle
    /\ KTIdle
    /\ QFIdle
    /\ SCIdle
    /\ DSIdle
    /\ DZIdle
    /\ CSIdle
    /\ EPIdle
    /\ MDIdle
    /\ FMIdle
    /\ TRIdle
    /\ GIIdle

SpecMH ==
    MHInit
    /\ [][MHCall /\ UNCHANGED <<qs_vars, ot_vars, ks_vars, cp_vars, kt_vars, qf_vars, sc_vars, ds_vars, dz_vars, cs_vars, ep_vars, md_vars, fm_vars, tr_vars, gi_vars>>]_vars

SCInit ==
    /\ sc_pc = "call"
    /\ \/ sc_call \in RmsdCalls /\ sc_df \in RmsdFrames
       \/ sc_call \in FScoreCalls /\ sc_df \in FScoreFrames
    /\ sc_out = [kind |-> None]
    /\ QSIdle
    /\ OTIdle
    /\ KSIdle
    /\ CPIdle
    /\ KTIdle
    /\ QFIdle
    /\ MHIdle
    /\ DSIdle
    /\ DZIdle
    /\ CSIdle
    /\ EPIdle
    /\ MDIdle
    /\ FMIdle
    /\ TRIdle
    /\ GIIdle

SpecScores ==
    SCInit
    /\ [][ScoresNext /\ UNCHANGED <<qs_vars, ot_vars, ks_vars, cp_vars, kt_vars, qf_vars, mh_vars, ds_vars, dz_vars, cs_vars, ep_vars, md_vars, fm_vars, tr_vars, gi_vars>>]_vars

DSInit ==
    /\ ds_pc = "call"
    /\ ds_call \in DfScoreCalls
    /\ ds_df \in DfScoreFrames
    /\ ds_out = [kind |-> None]
    /\ QSIdle
    /\ OTIdle
    /\ KSIdle
    /\ CPIdle
    /\ KTIdle
    /\ QFIdle
    /\ MHIdle
    /\ SCIdle
    /\ DZIdle
    /\ CSIdle
    /\ EPIdle
    /\ MDIdle
    /\ FMIdle
    /\ TRIdle
    /\ GIIdle

SpecDfScore ==
    DSInit
    /\ [][DfScoreCall /\ UNCHANGED <<qs_vars, ot_vars, ks_vars, cp_vars, kt_vars, qf_vars, mh_vars, sc_vars, dz_vars, cs_vars, ep_vars, md_vars, fm_vars, tr_vars, gi_vars>>]_vars

DZInit ==
    /\ dz_pc = "call"
    /\ dz_df \in DropZeroFrames
    /\ dz_out = NoFrame
    /\ QSIdle
    /\ OTIdle
    /\ KSIdle
    /\ CPIdle
    /\ KTIdle
    /\ QFIdle
    /\ MHIdle
    /\ SCIdle
    /\ DSIdle
    /\ CSIdle
    /\ EPIdle
    /\ MDIdle
    /\ FMIdle
    /\ TRIdle
    /\ GIIdle

SpecDropZero ==
    DZInit
    /\ [][DZCall /\ UNCHANGED <<qs_vars, ot_vars, ks_vars, cp_vars, kt_vars, qf_vars, mh_vars, sc_vars, ds_vars, cs_vars, ep_vars, md_vars, fm_vars, tr_vars, gi_vars>>]_vars

CSInit ==
    /\ cs_pc = "call"
    /\ cs_s \in ChangeSpanSeries
    /\ cs_steps \in 0..MaxStepsC
    /\ cs_out = <<>>
    /\ QSIdle
    /\ OTIdle
    /\ KSIdle
    /\ CPIdle
    /\ KTIdle
    /\ QFIdle
    /\ MHIdle
    /\ SCIdle
    /\ DSIdle
    /\ DZIdle
    /\ EPIdle
    /\ MDIdle
    /\ FMIdle
    /\ TRIdle
    /\ GIIdle

SpecChangeSpan ==
    CSInit
    /\ [][CSCall /\ UNCHANGED <<qs_vars, ot_vars, ks_vars, cp_vars, kt_vars, qf_vars, mh_vars, sc_vars, ds_vars, dz_vars, ep_vars, md_vars, fm_vars, tr_vars, gi_vars>>]_vars

EPInit ==
    /\ ep_pc = "main"
    /\ ep_argv \in ArgvInputs
    /\ ep_answer = NotAsked
    /\ ep_r = NoResponse
    /\ ep_dir0 \in DirectoryInputs
    /\ ep_dir = ep_dir0
    /\ ep_log = <<>>
    /\ QSIdle
    /\ OTIdle
    /\ KSIdle
    /\ CPIdle
    /\ KTIdle
    /\ QFIdle
    /\ MHIdle
    /\ SCIdle
    /\ DSIdle
    /\ DZIdle
    /\ CSIdle
    /\ MDIdle
    /\ FMIdle
    /\ TRIdle
    /\ GIIdle

SpecInstall ==
    EPInit
    /\ [][InstallNext /\ UNCHANGED <<qs_vars, ot_vars, ks_vars, cp_vars, kt_vars, qf_vars, mh_vars, sc_vars, ds_vars, dz_vars, cs_vars, md_vars, fm_vars, tr_vars, gi_vars>>]_vars

MDInit ==
    /\ md_pc = "new"
    /\ md_heap0 \in CallerHeaps
    /\ md_heap = md_heap0
    /\ md_args \in ModelArgs
    /\ md_df \in {NoObject, CallerFrame}
    /\ md_self = NoCollection
    /\ QSIdle
    /\ OTIdle
    /\ KSIdle
    /\ CPIdle
    /\ KTIdle
    /\ QFIdle
    /\ MHIdle
    /\ SCIdle
    /\ DSIdle
    /\ DZIdle
    /\ CSIdle
    /\ EPIdle
    /\ FMIdle
    /\ TRIdle
    /\ GIIdle

SpecModels ==
    MDInit
    /\ [][ModelsNext /\ UNCHANGED <<qs_vars, ot_vars, ks_vars, cp_vars, kt_vars, qf_vars, mh_vars, sc_vars, ds_vars, dz_vars, cs_vars, ep_vars, fm_vars, tr_vars, gi_vars>>]_vars

FMInit ==
    /\ fm_pc = "call"
    /\ \/ fm_model \in ModelInputs
       \/ fm_model \in ObjectInputs
       \/ fm_model \in MappingInputs
    /\ fm_out = [kind |-> None]
    /\ QSIdle
    /\ OTIdle
    /\ KSIdle
    /\ CPIdle
    /\ KTIdle
    /\ QFIdle
    /\ MHIdle
    /\ SCIdle
    /\ DSIdle
    /\ DZIdle
    /\ CSIdle
    /\ EPIdle
    /\ MDIdle
    /\ TRIdle
    /\ GIIdle

SpecForceModel ==
    FMInit
    /\ [][FMCall /\ UNCHANGED <<qs_vars, ot_vars, ks_vars, cp_vars, kt_vars, qf_vars, mh_vars, sc_vars, ds_vars, dz_vars, cs_vars, ep_vars, md_vars, tr_vars, gi_vars>>]_vars

TRInit ==
    /\ tr_pc = "train"
    /\ tr_args \in TrainArgs
    /\ tr_heap = [f \in {OwnFrame, PassedFrame} |-> DataFrame(tr_args.N, tr_args.y_ref)]
    /\ tr_self = NewModels(tr_args.names, tr_args.y_ref)
    /\ tr_exc = None
    /\ QSIdle
    /\ OTIdle
    /\ KSIdle
    /\ CPIdle
    /\ KTIdle
    /\ QFIdle
    /\ MHIdle
    /\ SCIdle
    /\ DSIdle
    /\ DZIdle
    /\ CSIdle
    /\ EPIdle
    /\ MDIdle
    /\ FMIdle
    /\ GIIdle

SpecTrain ==
    TRInit
    /\ [][TrainNext /\ UNCHANGED <<qs_vars, ot_vars, ks_vars, cp_vars, kt_vars, qf_vars, mh_vars, sc_vars, ds_vars, dz_vars, cs_vars, ep_vars, md_vars, fm_vars, gi_vars>>]_vars

GIInit ==
    /\ gi_pc = "call"
    /\ gi_df \in GroupedInterpolateFrames
    /\ gi_method \in InterpolateMethods
    /\ gi_out = [kind |-> "None"]
    /\ QSIdle
    /\ OTIdle
    /\ KSIdle
    /\ CPIdle
    /\ KTIdle
    /\ QFIdle
    /\ MHIdle
    /\ SCIdle
    /\ DSIdle
    /\ DZIdle
    /\ CSIdle
    /\ EPIdle
    /\ MDIdle
    /\ FMIdle
    /\ TRIdle

SpecGroupedInterpolate ==
    GIInit
    /\ [][GICall /\ UNCHANGED <<qs_vars, ot_vars, ks_vars, cp_vars, kt_vars, qf_vars, mh_vars, sc_vars, ds_vars, dz_vars, cs_vars, ep_vars, md_vars, fm_vars, tr_vars>>]_vars

====
